---- MODULE Spec2Model ----
(***************************************************************************)
(* A model of pyc_coglib: the moderation cog (warning ledger, escalation,  *)
(* message filters), the ticket workflow and the stores they share.        *)
(*                                                                         *)
(* Handlers are coroutines on one event loop: a handler runs without       *)
(* interruption up to an `await`, where other handlers may run.  Each      *)
(* action below is the code of one handler between two such points.        *)
(***************************************************************************)
EXTENDS Integers, Sequences, FiniteSets, TLC

\* ------------------------------------------------------------------ bounds
\* inserts into the warns table in one run
MaxWarns == 2
\* largest number an administrator types into the warn-threshold prompt
MaxThreshold == 2

\* ------------------------------------------------------------ the community
\* Members of the one guild the bot serves.  "mod" holds moderate_members,
\* "root" is an administrator, "bot" is a bot account.
Members == {"ann", "bob", "mod", "root", "bot"}
IsBot(u) == u = "bot"
\* (mutant) nobody is taken for an administrator
IsAdminNobody(u) == FALSE
IsAdmin(u) == u = "root"
\* has_permissions(moderate_members=True) lets only these run /warn, /clearwarn
Moderators == {"mod"}
Reasons == {"spam", "flood"}
\* /warn invocations in flight at once; a free slot is taken in this order
WarnHandlers == {"w1", "w2"}
Earlier(g, h) == g = "w1" /\ h = "w2"

VARIABLES
    settings,   \* settings.json: the keys present ("moderation." left out) and their values
    warns,      \* rows of table warns: [id, user_id, reason]
    seq,        \* sqlite_sequence of warns: the largest id AUTOINCREMENT has given out
    wh,         \* per /warn invocation: where its coroutine is, and its locals
    outcome,    \* what the /warn that finished last counted and did
    live,       \* history: per subject, rows inserted minus rows deleted
    reply,      \* the last interaction response sent by a command
    ticket,     \* the ticket: its channel, who it was opened for, the embed's fields
    th,         \* the presses of the ticket's buttons, in order: each handler's locals
    deletes,    \* calls of channel.delete() made by close_ticket
    msg,        \* the message the on_message listeners were dispatched for
    exists,     \* whether that message still exists on the platform
    fh,         \* per filter listener: where its coroutine is, and what it has done
    modlog,     \* the filters whose entry reached the moderation log channel
    committed,  \* sqlite.db as the last commit left it: the rows and sqlite_sequence
    boots,      \* how many times the process has been started again
    maxid,      \* history: the largest id a warning was ever created with
    mem,        \* Settings.settings of a store: path |-> node, the root mapping implicit
    disk,       \* the JSON file of that store, as save() wrote it last
    call,       \* the last put / get_or_create on that store and how it ended
    trail,      \* the guild's audit log entries of one kind, most recent first
    au,         \* the audit listener in flight: its position, locals and effects
    pr,         \* the interactive wait in flight, or the one that ended last
    api,        \* api.py: BOT, its extensions, the ledger's connection, /stop, the last response
    gd,         \* bot.guilds, and where on_ready and each on_guild_join are
    panel       \* webpanels/app.py: the sessions, the requests sent on, the last response

warnVars == <<warns, seq, wh, outcome, live, committed, boots, maxid>>
ticketVars == <<ticket, th, deletes>>
filterVars == <<msg, exists, fh, modlog>>
storeVars == <<mem, disk, call>>
auditVars == <<trail, au>>
lateVars == <<pr, api, gd, panel>>
extVars == <<storeVars, auditVars, lateVars>>
vars == <<settings, reply, warnVars, ticketVars, filterVars, extVars>>

\* ---------------------------------------------------------------- settings
\* Settings.get_or_create(path, default) for a key of the moderation cog:
\* the value read, and the document after the call (the default is written
\* when the key is absent).
SettingsValue(doc, key, default) ==
    IF key \in DOMAIN doc THEN doc[key] ELSE default

SettingsAfterGet(doc, key, default) ==
    IF key \in DOMAIN doc THEN doc ELSE doc @@ (key :> default)

\* Settings.put(path, value): overwrite
SettingsAfterPut(doc, key, value) ==
    [k \in DOMAIN doc \cup {key} |-> IF k = key THEN value ELSE doc[k]]

\* ------------------------------------------------------------ warning ledger
\* INSERT INTO warns (user_id, reason) VALUES (?, ?): AUTOINCREMENT gives seq + 1
InsertWarn(rows, last, user_id, reason) ==
    rows \cup {[id |-> last + 1, user_id |-> user_id, reason |-> reason]}

\* (mutant) the WHERE clause forgotten
SelectAll(rows, user_id) == rows

\* SELECT * FROM warns WHERE user_id = ?
SelectByUser(rows, user_id) == {r \in rows : r.user_id = user_id}

\* SELECT * FROM warns WHERE id = ?
SelectById(rows, warn_id) == {r \in rows : r.id = warn_id}

\* (mutant) DELETE FROM warns WHERE user_id = (the user of that warning)
DeleteByUserOf(rows, warn_id) ==
    {r \in rows : \A q \in rows : q.id = warn_id => r.user_id # q.user_id}

\* DELETE FROM warns WHERE id = ?
DeleteById(rows, warn_id) == {r \in rows : r.id # warn_id}

\* duration = min(5 * (warn_count // warn_threshold), 10080)
TimeoutCap == 10080
Duration(warn_count, warn_threshold) ==
    LET d == 5 * (warn_count \div warn_threshold)
    IN  IF d < TimeoutCap THEN d ELSE TimeoutCap

\* if warn_count % warn_threshold == 0
Escalates(warn_count, warn_threshold) == warn_count % warn_threshold = 0

\* `before` is history: the subject's rows when the handler made its INSERT
Idle == [pc |-> "idle", user |-> "none", before |-> 0]

\* No /warn has finished yet.
\* `before` and `last` are history: the subject's rows when the handler made
\* its INSERT, and what the /warn that finished before this one counted and did.
Summary(o) ==
    [user |-> o.user, warn_count |-> o.warn_count, warn_threshold |-> o.warn_threshold,
     escalated |-> o.escalated, minutes |-> o.minutes]
NoOutcome ==
    [handler |-> "none", user |-> "none", warn_count |-> 0, warn_threshold |-> 0,
     escalated |-> FALSE, minutes |-> 0, before |-> 0,
     last |-> [user |-> "none", warn_count |-> 0, warn_threshold |-> 0,
               escalated |-> FALSE, minutes |-> 0]]

\* /warn, from its start to `await ctx.response.send_message`: the three
\* rejections, else the INSERT.  (ctx.guild is never None here: the command
\* takes a discord.Member, which only a guild invocation supplies.)
WarnBegin(h, issuer, user, reason) ==
    /\ wh[h].pc = "idle"
    /\ \A g \in WarnHandlers : Earlier(g, h) => wh[g].pc # "idle"
    /\ IF IsBot(user) THEN
            /\ reply' = [cmd |-> "warn", out |-> "cannot warn bots"]
            /\ UNCHANGED <<warns, seq, wh, live, maxid>>
       ELSE IF user = issuer THEN
            /\ reply' = [cmd |-> "warn", out |-> "cannot warn yourself"]
            /\ UNCHANGED <<warns, seq, wh, live, maxid>>
       ELSE IF IsAdmin(user) THEN
            /\ reply' = [cmd |-> "warn", out |-> "cannot warn administrators"]
            /\ UNCHANGED <<warns, seq, wh, live, maxid>>
       ELSE
            /\ seq < MaxWarns
            /\ warns' = InsertWarn(warns, seq, user, reason)
            /\ seq' = seq + 1
            /\ maxid' = IF seq + 1 > maxid THEN seq + 1 ELSE maxid
            /\ live' = [live EXCEPT ![user] = @ + 1]
            /\ wh' = [wh EXCEPT ![h] = [pc |-> "inserted", user |-> user,
                                         before |-> Cardinality(SelectByUser(warns, user))]]
            /\ reply' = [cmd |-> "warn", out |-> "warned"]
    /\ UNCHANGED <<settings, outcome, committed, boots, ticketVars, filterVars, extVars>>

\* (mutant) /warn escalating a subject only if the /warn before did not
WarnCountFirstOnly(h) ==
    /\ wh[h].pc = "inserted"
    /\ LET user == wh[h].user
           warn_count == Cardinality(SelectByUser(warns, user))
           warn_threshold == SettingsValue(settings, "warn_threshold", 5)
       IN  /\ settings' = SettingsAfterGet(settings, "warn_threshold", 5)
           /\ wh' = [wh EXCEPT ![h] = Idle]
           /\ outcome' =
                IF Escalates(warn_count, warn_threshold) /\ ~(outcome.escalated /\ outcome.user = user)
                THEN [handler |-> h, user |-> user, warn_count |-> warn_count,
                      warn_threshold |-> warn_threshold, escalated |-> TRUE,
                      minutes |-> Duration(warn_count, warn_threshold),
                      before |-> wh[h].before, last |-> Summary(outcome)]
                ELSE [handler |-> h, user |-> user, warn_count |-> warn_count,
                      warn_threshold |-> warn_threshold, escalated |-> FALSE,
                      minutes |-> 0,
                      before |-> wh[h].before, last |-> Summary(outcome)]
    /\ UNCHANGED <<warns, seq, live, reply, committed, boots, maxid, ticketVars, filterVars, extVars>>

\* /warn, resumed after the response was sent: the SELECT, the threshold read
\* (which materialises the default 5), the modulo test and the timeout.  What
\* follows (followup.send, log_mod_channel) reads nothing of the ledger.
WarnCount(h) ==
    /\ wh[h].pc = "inserted"
    /\ LET user == wh[h].user
           warn_count == Cardinality(SelectByUser(warns, user))
           warn_threshold == SettingsValue(settings, "warn_threshold", 5)
       IN  /\ settings' = SettingsAfterGet(settings, "warn_threshold", 5)
           /\ wh' = [wh EXCEPT ![h] = Idle]
           /\ outcome' =
                IF Escalates(warn_count, warn_threshold)
                THEN [handler |-> h, user |-> user, warn_count |-> warn_count,
                      warn_threshold |-> warn_threshold, escalated |-> TRUE,
                      minutes |-> Duration(warn_count, warn_threshold),
                      before |-> wh[h].before, last |-> Summary(outcome)]
                ELSE [handler |-> h, user |-> user, warn_count |-> warn_count,
                      warn_threshold |-> warn_threshold, escalated |-> FALSE,
                      minutes |-> 0,
                      before |-> wh[h].before, last |-> Summary(outcome)]
    /\ UNCHANGED <<warns, seq, live, reply, committed, boots, maxid, ticketVars, filterVars, extVars>>

\* /clearwarn: SELECT by id, DELETE by id, with no await in between
ClearWarn(issuer, warn_id) ==
    /\ LET response == SelectById(warns, warn_id)
       IN  IF response = {} THEN
                /\ reply' = [cmd |-> "clearwarn", out |-> "not found"]
                /\ UNCHANGED <<warns, live>>
           ELSE
                /\ warns' = DeleteById(warns, warn_id)
                /\ live' = [u \in Members |->
                              live[u] - Cardinality({r \in response : r.user_id = u})]
                /\ reply' = [cmd |-> "clearwarn", out |-> "cleared"]
    /\ UNCHANGED <<settings, seq, wh, outcome, committed, boots, maxid, ticketVars, filterVars, extVars>>

\* create_modmenu_embed reads the four settings of the cog with their
\* defaults, which writes the defaults of those that are absent.
create_modmenu_embed(doc) ==
    SettingsAfterGet(
        SettingsAfterGet(
            SettingsAfterGet(
                SettingsAfterGet(doc, "warn_threshold", 5),
                "max_ping_count", 2),
            "max_caps_percent", 30),
        "mod_log_channel", "None")

\* ModMenuView.edit_warn_threshold, from the follow-up message on: int(),
\* the `threshold <= 0` rejection, SETTINGS.put, and the refresh of the menu
EditWarnThreshold(member, threshold) ==
    /\ IF ~IsAdmin(member) THEN
            /\ reply' = [cmd |-> "edit_warn_threshold", out |-> "no permission"]
            /\ UNCHANGED settings
       ELSE IF threshold <= 0 THEN
            /\ reply' = [cmd |-> "edit_warn_threshold", out |-> "must be greater than 0"]
            /\ UNCHANGED settings
       ELSE
            /\ settings' = create_modmenu_embed(
                                SettingsAfterPut(settings, "warn_threshold", threshold))
            /\ reply' = [cmd |-> "edit_warn_threshold", out |-> "set"]
    /\ UNCHANGED <<warnVars, ticketVars, filterVars, extVars>>

\* ------------------------------------------------------------ message filters
Filters == {"ping", "caps"}

\* No message has arrived: no listener runs.
NoMessage ==
    /\ msg = [guild |-> FALSE, bot |-> FALSE, system |-> FALSE, member |-> FALSE,
              can_mention_everyone |-> FALSE, can_manage_messages |-> FALSE,
              mentions |-> {}, role_mentions |-> {}, mention_everyone |-> FALSE,
              length |-> 0, caps |-> 0]
    /\ exists = FALSE
    /\ fh = [f \in Filters |-> [pc |-> "done", deleted |-> FALSE, notified |-> FALSE]]
    /\ modlog = {}

\* ------------------------------------------- stores and listeners at rest
\* A node of a settings document: a nested mapping, or a stored value.
DictNode == [dict |-> TRUE, v |-> 0]
Leaf(value) == [dict |-> FALSE, v |-> value]
\* What a call that raised returns: nothing.
NoNode == [dict |-> FALSE, v |-> -1]

\* A Settings object over a file that did not exist: setup() wrote {}.
NoStore ==
    /\ mem = <<>>
    /\ disk = <<>>
    /\ call = [op |-> "none", path |-> <<>>, arg |-> {}, had |-> FALSE,
              ret |-> NoNode, raised |-> "none"]

\* No audit log entry / no listener in flight.
NoEntry == [target |-> "none", kind |-> "None", user |-> "none"]
NoListener ==
    [listener |-> "none", target |-> "none", limit |-> 0, pc |-> "done",
     waited |-> FALSE, fetches |-> 0, first_entry |-> NoEntry,
     final_entry |-> NoEntry, logged |-> "none"]
NoAudit ==
    /\ trail = <<>>
    /\ au = NoListener

\* No command or button is waiting for a message.
NoPrompt == pr = [handler |-> "none", pc |-> "done", menu |-> FALSE, builtin |-> FALSE]

\* api.py is imported: BOT is None, nothing was requested.
NoApi ==
    api = [bot |-> FALSE, extensions |-> {}, db |-> "open", raised |-> "none",
           signalled |-> FALSE, stop |-> <<>>,
           resp |-> [route |-> "none", status |-> 0, body |-> "", code |-> 0]]

\* The bot is in no guild and no guild handler runs.
NoGuilds ==
    gd = [guilds |-> <<>>, pc |-> "idle", todo |-> <<>>,
          jh |-> [g \in {"g1", "g2", "g3"} |-> "none"]]

\* The web panel has served no request: no session holds the user.
NoPanel ==
    panel = [logged_in |-> {}, proved |-> {}, forwarded |-> <<>>,
             resp |-> [client |-> "none", route |-> "none", status |-> 0]]

LateIdle == NoPrompt /\ NoApi /\ NoGuilds /\ NoPanel

ExtIdle == NoStore /\ NoAudit /\ LateIdle

\* The ledger is empty and no /warn is running.
LedgerInit ==
    /\ warns = {}
    /\ seq = 0
    /\ wh = [h \in WarnHandlers |-> Idle]
    /\ outcome = NoOutcome
    /\ live = [u \in Members |-> 0]
    /\ committed = [rows |-> {}, seq |-> 0]
    /\ boots = 0
    /\ maxid = 0

\* settings.json does not exist yet: Settings.setup() writes {}
SettingsInit ==
    /\ settings = <<>>
    /\ reply = [cmd |-> "none", out |-> "none"]

WarnNext ==
    \/ \E h \in WarnHandlers, issuer \in Moderators, user \in Members, reason \in Reasons :
            WarnBegin(h, issuer, user, reason)
    \/ \E h \in WarnHandlers : WarnCount(h)
    \/ \E issuer \in Moderators, warn_id \in 1..MaxWarns : ClearWarn(issuer, warn_id)
    \/ \E member \in {"root", "mod"}, threshold \in 0..MaxThreshold :
            EditWarnThreshold(member, threshold)


\* What an administrator types into a prompt, and int() / str.isdigit() of it.
Typed == {"yes", "7", "0", "x"}
IsDigit(content) == content \in {"7", "0"}
ToInt(content) == IF content = "7" THEN 7 ELSE 0
\* channel.id as the settings document holds it: the number's decimal numeral
IdText(id) == IF id = 7 THEN "7" ELSE "0"
\* The ids guild.get_channel / guild.categories know: one category.
Categories == {7}

\* ------------------------------------------------------------------ tickets
\* presses of the ticket's buttons in one run
MaxPresses == 3

\* Those who see the ticket channel: the member it is opened for, and staff.
TicketUsers == {"ann", "mod", "root"}

\* user.name, as written into the embed's "Created by" field
NameOf(u) == <<"name", u>>

\* (mutant) the lookup finds nobody
get_member_named_nobody(name) == "None"

\* guild.get_member_named(name): the member of that name, or None
get_member_named(name) ==
    IF \E m \in Members : NameOf(m) = name
    THEN CHOOSE m \in Members : NameOf(m) = name
    ELSE "None"

\* user.mention: "<@id>"
Mention(u) == <<"<", "@", u, ">">>

\* f"Claimed by {interaction.user.mention}", as the words split(" ") gives
ClaimedBy(u) == <<"Claimed", "by", Mention(u)>>
Open == <<"open">>

\* str.strip("<@!>"): drop these characters from both ends
RECURSIVE Strip(_)
Strip(w) ==
    IF w = <<>> THEN w
    ELSE IF Head(w) \in {"<", "@", "!", ">"} THEN Strip(Tail(w))
    ELSE IF w[Len(w)] \in {"<", "@", "!", ">"} THEN Strip(SubSeq(w, 1, Len(w) - 1))
    ELSE w

\* int(status.split(" ")[-1].strip("<@!>")), then guild.get_member(user_id)
ClaimantOf(status) ==
    LET user_id == Strip(status[Len(status)])
    IN  IF Len(user_id) = 1 /\ user_id[1] \in Members THEN user_id[1] ELSE "None"

NoTicket ==
    /\ ticket = [channel |-> "none", opened_for |-> "none", description |-> "",
                 created_by |-> NameOf("none"), status |-> Open, responses |-> 0]
    /\ th = <<>>
    /\ deletes = 0

Handler(kind, user, status, pc, out) ==
    [kind |-> kind, user |-> user, status |-> status, pc |-> pc, out |-> out, err |-> "none"]

\* TicketButtons.create_ticket_button: the category read from the settings
\* (a first answer when it is "0", with no return after it, then a second
\* interaction.response.send_message and a return when the guild has no such
\* category: ticket.responses counts these calls for the last press, the
\* second of which raises InteractionResponded), the channel, the member's
\* overwrite, the embed with the description read from the settings, "Created by" = user.name and
\* "Status" = "open"
create_ticket_button(user) ==
    /\ ticket.channel = "none"
    /\ LET doc == SettingsAfterGet(settings, "tickets.ticket.category", "0")
           category_id == ToInt(doc["tickets.ticket.category"])
       IN  IF category_id \notin Categories THEN
                /\ settings' = doc
                /\ reply' = [cmd |-> "create_ticket",
                             out |-> IF category_id = 0 THEN "Ticket category not set"
                                     ELSE "No category found!"]
                /\ ticket' = [ticket EXCEPT !.responses = IF category_id = 0 THEN 2 ELSE 1]
           ELSE
                /\ settings' = SettingsAfterGet(doc, "tickets.ticket.description",
                                                "No description set")
                /\ ticket' = [channel |-> "live", opened_for |-> user,
                              description |-> SettingsValue(doc, "tickets.ticket.description",
                                                            "No description set"),
                              created_by |-> NameOf(user), status |-> Open, responses |-> 1]
                /\ reply' = [cmd |-> "create_ticket", out |-> "Ticket created"]
    /\ UNCHANGED <<warnVars, extVars, filterVars, th, deletes>>

\* (mutant) claim_ticket without the comparison with the creator
claim_ticket_by_anyone(user) ==
    /\ ticket.channel = "live"
    /\ Len(th) < MaxPresses
    /\ th' = Append(th, Handler("claim", user, ticket.status, "edit", "none"))
    /\ UNCHANGED <<settings, reply, warnVars, extVars, filterVars, ticket, deletes>>

\* TicketControlButtons.claim_ticket, from the press to `await message.edit`:
\* the embed is the one the interaction carries
claim_ticket(user) ==
    /\ ticket.channel = "live"
    /\ Len(th) < MaxPresses
    /\ LET opened_by == get_member_named(ticket.created_by)
       IN  IF user = opened_by
           THEN th' = Append(th, Handler("claim", user, ticket.status, "done",
                                         "You can't claim your own ticket."))
           ELSE th' = Append(th, Handler("claim", user, ticket.status, "edit", "none"))
    /\ UNCHANGED <<settings, reply, warnVars, extVars, filterVars, ticket, deletes>>

\* claim_ticket, the edit reaching the platform: the embed's Status field
\* becomes "Claimed by <mention>"; on a deleted channel the edit raises NotFound
claim_ticket_edit(i) ==
    /\ th[i].kind = "claim" /\ th[i].pc = "edit"
    /\ IF ticket.channel = "live"
       THEN /\ ticket' = [ticket EXCEPT !.status = ClaimedBy(th[i].user)]
            /\ th' = [th EXCEPT ![i].pc = "done", ![i].out = "Ticket claimed"]
       ELSE /\ th' = [th EXCEPT ![i].pc = "failed", ![i].err = "NotFound"]
            /\ UNCHANGED ticket
    /\ UNCHANGED <<settings, reply, warnVars, extVars, filterVars, deletes>>

\* (mutant) close_ticket without the comparison with the claimant
close_ticket_by_anyone(user) ==
    /\ ticket.channel = "live"
    /\ Len(th) < MaxPresses
    /\ IF ticket.status # Open
       THEN th' = Append(th, Handler("close", user, ticket.status, "dm", "none"))
       ELSE th' = Append(th, Handler("close", user, ticket.status, "done",
                                     "The ticket isn't claimed yet."))
    /\ UNCHANGED <<settings, reply, warnVars, extVars, filterVars, ticket, deletes>>

\* TicketControlButtons.close_ticket, from the press to `await member.send`
close_ticket(user) ==
    /\ ticket.channel = "live"
    /\ Len(th) < MaxPresses
    /\ LET status == ticket.status
       IN  IF status # Open THEN
                IF ClaimantOf(status) = "None"
                THEN th' = Append(th, Handler("close", user, status, "done",
                                              "Something is malicious with your ticket"))
                ELSE IF ClaimantOf(status) # user
                THEN th' = Append(th, Handler("close", user, status, "done",
                                              "You can't close this ticket"))
                ELSE th' = Append(th, Handler("close", user, status, "dm", "none"))
           ELSE th' = Append(th, Handler("close", user, status, "done",
                                         "The ticket isn't claimed yet."))
    /\ UNCHANGED <<settings, reply, warnVars, extVars, filterVars, ticket, deletes>>

\* close_ticket, resumed after member.send: discord.Forbidden (the creator
\* takes no direct messages) leaves the handler; otherwise channel.delete()
\* is called, which raises NotFound on a channel already deleted
close_ticket_delete(i, delivered) ==
    /\ th[i].kind = "close" /\ th[i].pc = "dm"
    /\ IF ~delivered THEN
            /\ th' = [th EXCEPT ![i].pc = "failed", ![i].err = "Forbidden"]
            /\ UNCHANGED <<ticket, deletes>>
       ELSE
            /\ deletes' = deletes + 1
            /\ IF ticket.channel = "live"
               THEN /\ ticket' = [ticket EXCEPT !.channel = "deleted"]
                    /\ th' = [th EXCEPT ![i].pc = "done", ![i].out = "Ticket closed."]
               ELSE /\ th' = [th EXCEPT ![i].pc = "failed", ![i].err = "NotFound"]
                    /\ UNCHANGED ticket
    /\ UNCHANGED <<settings, reply, warnVars, extVars, filterVars>>

TicketNext ==
    \/ \E user \in TicketUsers : create_ticket_button(user)
    \/ \E user \in TicketUsers : claim_ticket(user)
    \/ \E i \in 1..Len(th) : claim_ticket_edit(i)
    \/ \E user \in TicketUsers : close_ticket(user)
    \/ \E i \in 1..Len(th), delivered \in BOOLEAN : close_ticket_delete(i, delivered)

\* An administrator has set the ticket category with /ticketconfig.
TicketInit ==
    /\ settings = ("tickets.ticket.category" :> "7")
    /\ reply = [cmd |-> "none", out |-> "none"]
    /\ LedgerInit /\ ExtIdle /\ NoTicket /\ NoMessage

SpecTicket == TicketInit /\ [][TicketNext]_vars

WarnInit == SettingsInit /\ LedgerInit /\ ExtIdle /\ NoTicket /\ NoMessage

SpecWarn == WarnInit /\ [][WarnNext]_vars


\* ------------------------------------------------------- binary64 arithmetic
\* `total_caps / len(message.content) * 100` is Python float arithmetic: an
\* IEEE 754 binary64 division, then a binary64 multiplication, each rounded to
\* nearest, ties to even.  A float is modelled by its 53-bit significand, held
\* as four limbs of 16 bits (most significant first, the first one in 16..31),
\* and its exponent: significand * 2^(exp - 52).
RECURSIVE Pow2(_)
Pow2(n) == IF n = 0 THEN 1 ELSE 2 * Pow2(n - 1)

Limb == Pow2(16)

\* r / l scaled into [1, 2): the scaled numerator and the exponent
RECURSIVE Lead(_, _, _)
Lead(r, l, e) == IF r >= l THEN <<r, e>> ELSE Lead(2 * r, l, e - 1)

\* the significand plus one, carried through the limbs
Inc(m) ==
    LET s4 == m[4] + 1
        s3 == m[3] + s4 \div Limb
        s2 == m[2] + s3 \div Limb
        s1 == m[1] + s2 \div Limb
    IN  <<s1, s2 % Limb, s3 % Limb, s4 % Limb>>

\* round to nearest, ties to even: `rest` is what was cut off, in units of
\* 1 / `unit` of the last place; a carry out of 53 bits raises the exponent
Round53(m, exp, rest, unit) ==
    LET up == 2 * rest > unit \/ (2 * rest = unit /\ m[4] % 2 = 1)
        n == IF up THEN Inc(m) ELSE m
    IN  IF n[1] = 32 THEN [bits |-> <<16, 0, 0, 0>>, exp |-> exp + 1]
        ELSE [bits |-> n, exp |-> exp]

\* c / l for integers 0 < c <= l < 64: long division, 20 + 16 + 16 bits
\* after the leading one
FloatDiv(c, l) ==
    LET n == Lead(c, l, 0)
        t1 == (n[1] - l) * Pow2(20)
        t2 == (t1 % l) * Limb
        t3 == (t2 % l) * Limb
    IN  Round53(<<16 + (t1 \div l) \div Limb, (t1 \div l) % Limb, t2 \div l, t3 \div l>>,
                n[2], t3 % l, l)

\* the number of bits of n >= 1
RECURSIVE BitLength(_)
BitLength(n) == IF n < 2 THEN 1 ELSE 1 + BitLength(n \div 2)

\* x * k for a float x and an integer 2 <= k < 2^10: the product of the
\* limbs, then a shift right by s bits back to 53 bits, rounded
FloatMul(x, k) ==
    LET p4 == x.bits[4] * k
        p3 == x.bits[3] * k + p4 \div Limb
        p2 == x.bits[2] * k + p3 \div Limb
        p1 == x.bits[1] * k + p2 \div Limb
        d == <<p1, p2 % Limb, p3 % Limb, p4 % Limb>>
        s == BitLength(p1) - 5
        cut == Pow2(s)
        up == Pow2(16 - s)
    IN  Round53(<<d[1] \div cut,
                  d[2] \div cut + (d[1] % cut) * up,
                  d[3] \div cut + (d[2] % cut) * up,
                  d[4] \div cut + (d[3] % cut) * up>>,
                x.exp + s, d[4] % cut, cut)

\* y > p for a float 0 < y < 2^20 and an integer p >= 0
FloatGreater(y, p) ==
    IF y.exp < 0 THEN p = 0
    ELSE LET high == y.bits[1] * Limb + y.bits[2]
             whole == high \div Pow2(20 - y.exp)
         IN  \/ whole > p
             \/ /\ whole = p
                /\ (high % Pow2(20 - y.exp) # 0 \/ y.bits[3] # 0 \/ y.bits[4] # 0)

\* (total_caps / len(message.content) * 100) > percentage
CapsExceed(total_caps, length, percentage) ==
    IF total_caps = 0 THEN 0 > percentage
    ELSE FloatGreater(FloatMul(FloatDiv(total_caps, length), 100), percentage)

\* ===================================================================== claims

\* ------------------------------------------------- message filters (listeners)
MaxPing == 3       \* largest configured max_ping_count
MaxLen == 20       \* longest message body, in characters

Roles == {"helpers", "muted"}
RoleMembers(role) == IF role = "helpers" THEN {"mod", "root"} ELSE {"ann", "bob"}
Mentionable(role) == role = "helpers"

\* Where a message comes from: guild is FALSE for a direct message, member is
\* FALSE when guild.get_member(author.id) finds nobody.
Origins ==
    { [guild |-> TRUE,  bot |-> FALSE, system |-> FALSE, member |-> TRUE],
      [guild |-> TRUE,  bot |-> TRUE,  system |-> FALSE, member |-> TRUE],
      [guild |-> TRUE,  bot |-> FALSE, system |-> TRUE,  member |-> TRUE],
      [guild |-> FALSE, bot |-> FALSE, system |-> FALSE, member |-> FALSE],
      [guild |-> FALSE, bot |-> TRUE,  system |-> FALSE, member |-> FALSE],
      [guild |-> TRUE,  bot |-> FALSE, system |-> FALSE, member |-> FALSE] }

\* A settings document from optional values: each argument is the empty set
\* (key absent) or a singleton holding the stored value.
Doc(ping, caps, channel) ==
    [k \in (IF ping = {} THEN {} ELSE {"max_ping_count"})
           \cup (IF caps = {} THEN {} ELSE {"max_caps_percent"})
           \cup (IF channel = {} THEN {} ELSE {"mod_log_channel"}) |->
        IF k = "max_ping_count" THEN CHOOSE v \in ping : TRUE
        ELSE IF k = "max_caps_percent" THEN CHOOSE v \in caps : TRUE
        ELSE CHOOSE v \in channel : TRUE]

\* A message has just been posted and both listeners have been dispatched.
MessagePosted(origins, permissions, mentioned, roles, everyone, bodies, pings, percents, channels) ==
    /\ \E o \in origins, perm \in permissions, direct \in mentioned,
          rs \in roles, all \in everyone, body \in bodies :
          msg = [guild |-> o.guild, bot |-> o.bot, system |-> o.system,
                 member |-> o.member,
                 can_mention_everyone |-> perm[1],
                 can_manage_messages |-> perm[2],
                 mentions |-> direct, role_mentions |-> rs,
                 mention_everyone |-> all,
                 length |-> body[1], caps |-> body[2]]
    /\ \E ping \in pings, caps \in percents, channel \in channels :
          settings = Doc(ping, caps, channel)
    /\ exists = TRUE
    /\ fh = [f \in Filters |-> [pc |-> "start", deleted |-> FALSE, notified |-> FALSE]]
    /\ modlog = {}
    /\ reply = [cmd |-> "none", out |-> "none"]

\* The early returns shared by the listeners (filter_ping 231-240,
\* filter_caps 367-375).
PingSkipsHumans(m) == ~m.guild \/ m.system \/ ~m.member
PingSkips(m) == ~m.guild \/ m.bot \/ m.system \/ ~m.member
CapsSkips(m) == ~m.guild \/ m.bot \/ m.system \/ ~m.member

\* pinged_users.update(role.members) for every mentionable mentioned role.
RECURSIVE RoleUpdate(_, _)
RoleUpdate(pinged_users, roles) ==
    IF roles = {} THEN pinged_users
    ELSE LET role == CHOOSE r \in roles : TRUE
         IN  RoleUpdate(IF Mentionable(role)
                        THEN pinged_users \cup RoleMembers(role)
                        ELSE pinged_users,
                        roles \ {role})

PingedUsers(m) ==
    LET byRole == RoleUpdate(m.mentions, m.role_mentions)
    IN  IF m.mention_everyone THEN byRole \cup Members ELSE byRole

\* `total_users < max_ping_count`: the message is left alone.
UnderPingLimitInclusive(total_users, max_ping_count) == total_users <= max_ping_count
UnderPingLimit(total_users, max_ping_count) == total_users < max_ping_count

Finished(f) == [fh EXCEPT ![f].pc = "done"]

\* filter_ping up to its first await.
filter_ping ==
    /\ fh["ping"].pc = "start"
    /\ IF PingSkips(msg) \/ msg.can_mention_everyone
       THEN /\ fh' = Finished("ping")
            /\ UNCHANGED settings
       ELSE LET total_users == Cardinality(PingedUsers(msg))
                max_ping_count == SettingsValue(settings, "max_ping_count", 2)
            IN  /\ settings' = SettingsAfterGet(settings, "max_ping_count", 2)
                /\ fh' = IF UnderPingLimit(total_users, max_ping_count)
                         THEN Finished("ping")
                         ELSE [fh EXCEPT !["ping"].pc = "delete"]
    /\ UNCHANGED <<reply, warnVars, extVars, ticketVars, msg, exists, modlog>>

\* filter_caps up to its first await.
filter_caps ==
    /\ fh["caps"].pc = "start"
    /\ IF CapsSkips(msg) \/ msg.can_manage_messages
       THEN /\ fh' = Finished("caps")
            /\ UNCHANGED settings
       ELSE LET total_caps == msg.caps
                percentage == SettingsValue(settings, "max_caps_percent", 30)
            IN  /\ settings' = SettingsAfterGet(settings, "max_caps_percent", 30)
                /\ fh' = IF msg.length > 0 /\ CapsExceed(total_caps, msg.length, percentage)
                         THEN [fh EXCEPT !["caps"].pc = "delete"]
                         ELSE Finished("caps")
    /\ UNCHANGED <<reply, warnVars, extVars, ticketVars, msg, exists, modlog>>

\* `await message.delete()` completes.  It stands outside the try block of
\* both listeners: on a message that is already gone the request is answered
\* 404 and discord.NotFound leaves the coroutine.
message_delete(f) ==
    /\ fh[f].pc = "delete"
    /\ IF exists
       THEN /\ exists' = FALSE
            /\ fh' = [fh EXCEPT ![f].pc = "notify", ![f].deleted = TRUE]
       ELSE /\ fh' = [fh EXCEPT ![f].pc = "failed"]
            /\ UNCHANGED exists
    /\ UNCHANGED <<settings, reply, warnVars, extVars, ticketVars, msg, modlog>>

\* The try block: the private message, then log_mod_channel.  A member who
\* cannot be messaged makes dm_channel.send raise; the bare except swallows
\* it and the moderation log is skipped.
notify(f, delivered) ==
    /\ fh[f].pc = "notify"
    /\ IF delivered
       THEN /\ fh' = [fh EXCEPT ![f].pc = "done", ![f].notified = TRUE]
            /\ settings' = SettingsAfterGet(settings, "mod_log_channel", "None")
            /\ modlog' = IF SettingsValue(settings, "mod_log_channel", "None") = "None"
                         THEN modlog
                         ELSE modlog \cup {f}
       ELSE /\ fh' = Finished(f)
            /\ UNCHANGED <<settings, modlog>>
    /\ UNCHANGED <<reply, warnVars, extVars, ticketVars, msg, exists>>

Permissions == {<<FALSE, FALSE>>, <<TRUE, FALSE>>, <<FALSE, TRUE>>, <<TRUE, TRUE>>}
\* <<len(content), number of uppercase characters>>
Bodies == {b \in (0..MaxLen) \X (0..MaxLen) : b[2] <= b[1]}
Absent == {{}}
Stored(values) == {{v} : v \in values}
Percents == {0, 28, 30, 55, 99, 100}
LogChannels == {"None", "mod-log"}

\* Only filter_ping listens.
PingInit ==
    /\ LedgerInit /\ ExtIdle /\ NoTicket
    /\ MessagePosted(Origins, {<<FALSE, FALSE>>, <<TRUE, FALSE>>},
                     SUBSET {"ann", "mod"}, SUBSET Roles, BOOLEAN, {<<3, 0>>},
                     Absent \cup Stored(0..MaxPing), Absent,
                     Absent \cup Stored(LogChannels))
PingNext ==
    \/ filter_ping
    \/ message_delete("ping")
    \/ \E delivered \in BOOLEAN : notify("ping", delivered)
SpecPing == PingInit /\ [][PingNext]_vars

\* Only filter_caps listens.
CapsInit ==
    /\ LedgerInit /\ ExtIdle /\ NoTicket
    /\ MessagePosted(Origins, {<<FALSE, FALSE>>, <<FALSE, TRUE>>},
                     {{}}, {{}}, {FALSE}, Bodies,
                     Absent, Absent \cup Stored(Percents),
                     Stored({"mod-log"}))
CapsNext ==
    \/ filter_caps
    \/ message_delete("caps")
    \/ \E delivered \in BOOLEAN : notify("caps", delivered)
SpecCaps == CapsInit /\ [][CapsNext]_vars

\* Both listeners run on the same message, as discord.py schedules them:
\* one task each, interleaved at their awaits.
FiltersInit ==
    /\ LedgerInit /\ ExtIdle /\ NoTicket
    /\ MessagePosted(Origins, Permissions,
                     {{}, {"ann"}, {"ann", "mod"}}, {{}, {"helpers"}}, BOOLEAN,
                     {<<0, 0>>, <<3, 0>>, <<3, 3>>, <<MaxLen, MaxLen - 1>>},
                     Absent \cup Stored({0, 1, MaxPing}),
                     Absent \cup Stored({0, 100}),
                     Absent \cup Stored({"mod-log"}))
FiltersNext ==
    \/ filter_ping
    \/ filter_caps
    \/ \E f \in Filters : message_delete(f)
    \/ \E f \in Filters, delivered \in BOOLEAN : notify(f, delivered)
SpecFilters == FiltersInit /\ [][FiltersNext]_vars


\* ------------------------------------------------ settings store (nested paths)
\* The store of settings.py with dot-separated paths.  A document maps each
\* path that exists (a tuple of segments) to its node.
Paths == {<<"a">>, <<"a", "b">>, <<"a", "b", "c">>, <<"b">>, <<"b", "c">>}
Values == {5, 7}

Prefix(path, n) == SubSeq(path, 1, n)
IsPrefix(p, q) == Len(p) <= Len(q) /\ SubSeq(q, 1, Len(p)) = p

\* (mutant) the loop over path_list[:-1] that turns a stored value in its way
\* into a mapping instead of raising
RECURSIVE DescendReplacing(_, _, _)
DescendReplacing(doc, path, n) ==
    IF n > Len(path) - 1
    THEN [doc |-> doc, raised |-> FALSE, updated |-> FALSE]
    ELSE LET segment == Prefix(path, n)
             made == [q \in DOMAIN doc \cup {segment} |->
                         IF q = segment THEN DictNode ELSE doc[q]]
         IN  [DescendReplacing(made, path, n + 1) EXCEPT !.updated = TRUE]

\* for path_segment in path_list[:-1]: a missing segment becomes {}, a
\* segment holding something else than a dict raises ValueError.  doc carries
\* every assignment made before the loop ended.
RECURSIVE Descend(_, _, _)
Descend(doc, path, n) ==
    IF n > Len(path) - 1
    THEN [doc |-> doc, raised |-> FALSE, updated |-> FALSE]
    ELSE LET segment == Prefix(path, n)
         IN  IF segment \notin DOMAIN doc
             THEN [Descend(doc @@ (segment :> DictNode), path, n + 1)
                      EXCEPT !.updated = TRUE]
             ELSE IF ~doc[segment].dict
             THEN [doc |-> doc, raised |-> TRUE, updated |-> FALSE]
             ELSE Descend(doc, path, n + 1)

\* current_path[last_path] = value: whatever was at the path, a mapping with
\* all it held included, is replaced.
Assign(doc, path, value) ==
    [q \in {r \in DOMAIN doc : ~IsPrefix(path, r)} \cup {path} |->
        IF q = path THEN Leaf(value) ELSE doc[q]]

\* (mutant) put that keeps a value already stored
PutIfAbsent(m, d, path, value) ==
    LET walk == Descend(m, path, 1)
    IN  IF walk.raised
        THEN [mem |-> walk.doc, disk |-> d, ret |-> NoNode, raised |-> "ValueError"]
        ELSE LET doc == IF path \in DOMAIN walk.doc THEN walk.doc
                        ELSE Assign(walk.doc, path, value)
             IN  [mem |-> doc, disk |-> doc, ret |-> Leaf(value), raised |-> "none"]

\* Settings.put: the store (memory, file) after the call, what it returned
\* and what it raised.
Put(m, d, path, value) ==
    LET walk == Descend(m, path, 1)
    IN  IF walk.raised
        THEN [mem |-> walk.doc, disk |-> d, ret |-> NoNode, raised |-> "ValueError"]
        ELSE LET doc == Assign(walk.doc, path, value)
             IN  [mem |-> doc, disk |-> doc, ret |-> Leaf(value), raised |-> "none"]

\* (mutant) get_or_create that stores the default it is given every time
GetOrOverwrite(m, d, path, default) ==
    IF default = {} THEN [mem |-> m, disk |-> d, ret |-> NoNode, raised |-> "KeyError"]
    ELSE Put(m, d, path, CHOOSE v \in default : TRUE)

\* Settings.get_or_create; default is {} when the caller gives none (the
\* sentinel), else {value}.  save() runs only if something was created.
GetOrCreate(m, d, path, default) ==
    LET walk == Descend(m, path, 1)
    IN  IF walk.raised
        THEN [mem |-> walk.doc, disk |-> d, ret |-> NoNode, raised |-> "ValueError"]
        ELSE IF path \notin DOMAIN walk.doc
        THEN IF default = {}
             THEN [mem |-> walk.doc, disk |-> d, ret |-> NoNode, raised |-> "KeyError"]
             ELSE LET doc == walk.doc @@ (path :> Leaf(CHOOSE v \in default : TRUE))
                  IN  [mem |-> doc, disk |-> doc, ret |-> doc[path], raised |-> "none"]
        ELSE [mem |-> walk.doc,
              disk |-> IF walk.updated THEN walk.doc ELSE d,
              ret |-> walk.doc[path], raised |-> "none"]

put(path, value) ==
    LET r == Put(mem, disk, path, value)
    IN  /\ mem' = r.mem
        /\ disk' = r.disk
        /\ call' = [op |-> "put", path |-> path, arg |-> {value},
                    had |-> path \in DOMAIN mem, ret |-> r.ret, raised |-> r.raised]
        /\ UNCHANGED <<settings, reply, warnVars, ticketVars, filterVars, auditVars, lateVars>>

get_or_create(path, default) ==
    LET r == GetOrCreate(mem, disk, path, default)
    IN  /\ mem' = r.mem
        /\ disk' = r.disk
        /\ call' = [op |-> "get_or_create", path |-> path, arg |-> default,
                    had |-> path \in DOMAIN mem, ret |-> r.ret, raised |-> r.raised]
        /\ UNCHANGED <<settings, reply, warnVars, ticketVars, filterVars, auditVars, lateVars>>

\* The process starts again: Settings.setup() loads the file.
setup ==
    /\ mem # disk
    /\ mem' = disk
    /\ call' = [op |-> "setup", path |-> <<>>, arg |-> {}, had |-> FALSE,
                ret |-> NoNode, raised |-> "none"]
    /\ UNCHANGED <<disk, settings, reply, warnVars, ticketVars, filterVars, auditVars, lateVars>>

StoreInit ==
    /\ SettingsInit /\ LedgerInit /\ NoTicket /\ NoMessage /\ NoAudit /\ LateIdle
    /\ NoStore
StoreNext ==
    \/ \E path \in Paths, value \in Values : put(path, value)
    \/ \E path \in Paths, default \in {{}} \cup {{v} : v \in Values} :
            get_or_create(path, default)
    \/ setup
SpecStore == StoreInit /\ [][StoreNext]_vars

\* ------------------------------------------------------------ audit correlation
MaxTrail == 3       \* audit log entries of the kind in the guild
SearchLimit == 2    \* the `limit` the listeners pass to the scan (10 in the code)
Targets == {"ann", "bob"}
\* What discord.py makes of an entry's target: a discord.Member while the
\* user is in the guild, a discord.User otherwise.
TargetKinds == {"User", "Member"}
Entries == [target : Targets, kind : TargetKinds, user : Moderators]

\* guild.audit_logs(limit=n, action=...): the n most recent entries
audit_logs(entries, n) == SubSeq(entries, 1, IF n < Len(entries) THEN n ELSE Len(entries))

\* (mutant) a first entry accepted only if its target is a discord.User
FirstMatchesUser(entry, target) == entry.kind = "User" /\ entry.target = target
\* assert isinstance(first_entry.target, (User, Member)); target.id == target.id
FirstMatches(entry, target) == entry.kind \in {"User", "Member"} /\ entry.target = target

\* The `async for` of lookup_audit_log: an entry whose target is not a
\* discord.User fails the assert, which the inner except swallows; the first
\* entry that passes and matches ends the loop.
RECURSIVE ScanUsers(_, _)
ScanUsers(entries, target) ==
    IF entries = <<>> THEN NoEntry
    ELSE IF Head(entries).kind = "User" /\ Head(entries).target = target
    THEN Head(entries)
    ELSE ScanUsers(Tail(entries), target)

\* The `async for` of on_member_remove: entry.target.id == member.id
RECURSIVE ScanTargets(_, _)
ScanTargets(entries, target) ==
    IF entries = <<>> THEN NoEntry
    ELSE IF Head(entries).target = target THEN Head(entries)
    ELSE ScanTargets(Tail(entries), target)

Listening(listener, target, pc) ==
    [NoListener EXCEPT !.listener = listener, !.target = target,
                       !.limit = SearchLimit, !.pc = pc]

auditFrame == <<settings, reply, warnVars, ticketVars, filterVars, storeVars, lateVars>>

\* The platform records a moderation action of the kind.
audit_entry_added(entry) ==
    /\ Len(trail) < MaxTrail
    /\ trail' = <<entry>> \o trail
    /\ UNCHANGED <<au, auditFrame>>

\* on_member_ban, up to `await asyncio.sleep(1)`
on_ban(user) ==
    /\ au.pc = "done"
    /\ au' = Listening("ban", user, "sleep")
    /\ UNCHANGED <<trail, auditFrame>>

\* on_member_remove, up to `await asyncio.sleep(1)`
on_member_remove(member) ==
    /\ au.pc = "done"
    /\ au' = Listening("kick", member, "sleep")
    /\ UNCHANGED <<trail, auditFrame>>

\* on_member_update, up to `await lookup_audit_log(...)`: nothing to do when
\* the timeout did not change, else straight into the lookup.
handle_timeout_check(member, changed) ==
    /\ au.pc = "done"
    /\ au' = IF changed THEN Listening("timeout", member, "first")
             ELSE Listening("timeout", member, "done")
    /\ UNCHANGED <<trail, auditFrame>>

\* asyncio.sleep(1) returns
sleep(listener) ==
    /\ au.listener = listener /\ au.pc = "sleep"
    /\ au' = [au EXCEPT !.waited = TRUE, !.pc = "first"]
    /\ UNCHANGED <<trail, auditFrame>>

\* first_entry = await anext(guild.audit_logs(limit=1, action=...)).  On an
\* empty trail lookup_audit_log returns None to its caller, on_member_remove
\* writes logger.error("No entries were found!") and returns.
first_fetch ==
    /\ au.pc = "first"
    /\ LET got == audit_logs(trail, 1)
       IN  au' =
             IF got = <<>>
             THEN IF au.listener = "kick"
                  THEN [au EXCEPT !.fetches = @ + 1, !.pc = "done", !.logged = "logger.error"]
                  ELSE [au EXCEPT !.fetches = @ + 1, !.pc = "log"]
             ELSE IF FirstMatches(got[1], au.target)
             THEN [au EXCEPT !.fetches = @ + 1, !.first_entry = got[1],
                             !.final_entry = got[1], !.pc = "log"]
             ELSE [au EXCEPT !.fetches = @ + 1, !.first_entry = got[1], !.pc = "scan"]
    /\ UNCHANGED <<trail, auditFrame>>

\* async for entry in guild.audit_logs(limit=limit, action=...)
scan ==
    /\ au.pc = "scan"
    /\ LET got == audit_logs(trail, au.limit)
       IN  au' = [au EXCEPT !.fetches = @ + 1, !.pc = "log",
                            !.final_entry = IF au.listener = "kick"
                                            THEN ScanTargets(got, au.target)
                                            ELSE ScanUsers(got, au.target)]
    /\ UNCHANGED <<trail, auditFrame>>

\* What the listener does with the result: on_ban and handle_timeout_check
\* call log_mod_channel either way, on_member_remove only `if final_entry`.
log_result ==
    /\ au.pc = "log"
    /\ au' = IF au.final_entry # NoEntry
             THEN [au EXCEPT !.pc = "done", !.logged = "attributed"]
             ELSE IF au.listener = "kick"
             THEN [au EXCEPT !.pc = "done"]
             ELSE [au EXCEPT !.pc = "done", !.logged = "no matching audit entry"]
    /\ UNCHANGED <<trail, auditFrame>>

AuditInit ==
    /\ SettingsInit /\ LedgerInit /\ NoTicket /\ NoMessage /\ NoStore /\ LateIdle
    /\ NoAudit
AuditNext ==
    \/ \E entry \in Entries : audit_entry_added(entry)
    \/ \E user \in Targets : on_ban(user)
    \/ \E member \in Targets : on_member_remove(member)
    \/ \E member \in Targets, changed \in BOOLEAN : handle_timeout_check(member, changed)
    \/ \E listener \in {"ban", "kick"} : sleep(listener)
    \/ first_fetch
    \/ scan
    \/ log_result
SpecAudit == AuditInit /\ [][AuditNext]_vars

\* ------------------------------------------------- the ledger across restarts
MaxBoots == 2       \* restarts of the process in one run

\* What the connection holds is on disk only after Database.commit(), and the
\* only caller of commit() is Database.close().
Commit(rows, last) == [rows |-> rows, seq |-> last]

LiveIn(rows) == [u \in Members |-> Cardinality(SelectByUser(rows, u))]

\* A graceful stop, by SIGINT/SIGTERM (bot.py: bot_setup) or by the /stop
\* route (api.py: shutdown): DATABASE.close() commits, the process ends, and
\* the next start opens the file as committed.  Handlers in flight are gone.
Shutdown(how) ==
    /\ boots < MaxBoots
    /\ boots' = boots + 1
    /\ committed' = Commit(warns, seq)
    /\ wh' = [h \in WarnHandlers |-> Idle]
    /\ reply' = [cmd |-> how, out |-> "closed"]
    /\ UNCHANGED <<warns, seq, live, outcome, maxid, settings, ticketVars, filterVars, extVars>>

\* The process ends without close() (SIGKILL, power loss, a crash): the open
\* transaction is rolled back, rows and sqlite_sequence alike.
Kill ==
    /\ boots < MaxBoots
    /\ boots' = boots + 1
    /\ warns' = committed.rows
    /\ seq' = committed.seq
    /\ live' = LiveIn(committed.rows)
    /\ wh' = [h \in WarnHandlers |-> Idle]
    /\ reply' = [cmd |-> "kill", out |-> "none"]
    /\ UNCHANGED <<committed, outcome, maxid, settings, ticketVars, filterVars, extVars>>

LedgerLifeInit == SettingsInit /\ LedgerInit /\ ExtIdle /\ NoTicket /\ NoMessage
LedgerLifeNext ==
    \/ \E issuer \in Moderators, user \in Members, reason \in Reasons :
            WarnBegin("w1", issuer, user, reason)
    \/ WarnCount("w1")
    \/ \E issuer \in Moderators, warn_id \in 1..MaxWarns : ClearWarn(issuer, warn_id)
    \/ \E how \in {"signal", "/stop"} : Shutdown(how)
    \/ Kill
SpecLedgerLife == LedgerLifeInit /\ [][LedgerLifeNext]_vars

\* ------------------------------------------------------- mod menu: the limits
MaxTyped == 3       \* largest count an administrator types into a prompt
TypedPercents == {-1, 0, 30, 100, 101}

\* ModMenuView.edit_max_ping, from the follow-up message on: int(), the
\* `max_ping < 0` rejection (which returns), SETTINGS.put, the menu refresh
EditMaxPing(member, max_ping) ==
    /\ IF ~IsAdmin(member) THEN
            /\ reply' = [cmd |-> "edit_max_ping", out |-> "no permission"]
            /\ UNCHANGED settings
       ELSE IF max_ping < 0 THEN
            /\ reply' = [cmd |-> "edit_max_ping", out |-> "cannot be negative"]
            /\ UNCHANGED settings
       ELSE
            /\ settings' = create_modmenu_embed(
                                SettingsAfterPut(settings, "max_ping_count", max_ping))
            /\ reply' = [cmd |-> "edit_max_ping", out |-> "set"]
    /\ UNCHANGED <<warnVars, ticketVars, filterVars, extVars>>

\* (mutant) edit_max_caps without its range check
EditMaxCapsUnchecked(member, max_caps) ==
    /\ IF ~IsAdmin(member) THEN
            /\ reply' = [cmd |-> "edit_max_caps", out |-> "no permission"]
            /\ UNCHANGED settings
       ELSE
            /\ settings' = create_modmenu_embed(
                                SettingsAfterPut(settings, "max_caps_percent", max_caps))
            /\ reply' = [cmd |-> "edit_max_caps", out |-> "set"]
    /\ UNCHANGED <<warnVars, ticketVars, filterVars, extVars>>

\* ModMenuView.edit_max_caps: a value outside 0..100 raises ValueError, whose
\* handler answers and falls through to the menu refresh.
EditMaxCaps(member, max_caps) ==
    /\ IF ~IsAdmin(member) THEN
            /\ reply' = [cmd |-> "edit_max_caps", out |-> "no permission"]
            /\ UNCHANGED settings
       ELSE IF max_caps > 100 \/ max_caps < 0 THEN
            /\ reply' = [cmd |-> "edit_max_caps", out |-> "enter a valid percentage"]
            /\ settings' = create_modmenu_embed(settings)
       ELSE
            /\ settings' = create_modmenu_embed(
                                SettingsAfterPut(settings, "max_caps_percent", max_caps))
            /\ reply' = [cmd |-> "edit_max_caps", out |-> "set"]
    /\ UNCHANGED <<warnVars, ticketVars, filterVars, extVars>>

\* (mutant) edit_mod_log_channel without the administrator test
EditModLogChannelByAnyone(member, content) ==
    /\ IF IsDigit(content) /\ ToInt(content) \in Categories THEN
            /\ settings' = create_modmenu_embed(
                                SettingsAfterPut(
                                    SettingsAfterGet(settings, "mod_log_channel", "None"),
                                    "mod_log_channel", IdText(ToInt(content))))
            /\ reply' = [cmd |-> "edit_mod_log_channel", out |-> "Channel set"]
       ELSE
            /\ settings' = create_modmenu_embed(settings)
            /\ reply' = [cmd |-> "edit_mod_log_channel", out |-> "Channel was not found"]
    /\ UNCHANGED <<warnVars, ticketVars, filterVars, extVars>>

\* ModMenuView.edit_mod_log_channel: the administrator test, then, from the
\* message on: int() (ValueError), guild.get_channel (KeyError when it finds
\* none), the old channel read with its default, SETTINGS.put; each `except`
\* answers and falls through to the menu refresh.
EditModLogChannel(member, content) ==
    /\ IF ~IsAdmin(member) THEN
            /\ reply' = [cmd |-> "edit_mod_log_channel", out |-> "no permission"]
            /\ UNCHANGED settings
       ELSE IF ~IsDigit(content) THEN
            /\ reply' = [cmd |-> "edit_mod_log_channel", out |-> "That's not a valid channel ID"]
            /\ settings' = create_modmenu_embed(settings)
       ELSE IF ToInt(content) \notin Categories THEN
            /\ reply' = [cmd |-> "edit_mod_log_channel", out |-> "Channel was not found"]
            /\ settings' = create_modmenu_embed(settings)
       ELSE
            /\ settings' = create_modmenu_embed(
                                SettingsAfterPut(
                                    SettingsAfterGet(settings, "mod_log_channel", "None"),
                                    "mod_log_channel", IdText(ToInt(content))))
            /\ reply' = [cmd |-> "edit_mod_log_channel", out |-> "Channel set"]
    /\ UNCHANGED <<warnVars, ticketVars, filterVars, extVars>>

ConfigInit == SettingsInit /\ LedgerInit /\ ExtIdle /\ NoTicket /\ NoMessage
ConfigNext ==
    \/ \E member \in {"root", "mod"}, threshold \in -1..MaxTyped :
            EditWarnThreshold(member, threshold)
    \/ \E member \in {"root", "mod"}, max_ping \in -1..MaxTyped :
            EditMaxPing(member, max_ping)
    \/ \E member \in {"root", "mod"}, max_caps \in TypedPercents :
            EditMaxCaps(member, max_caps)
    \/ \E member \in {"root", "mod"}, content \in Typed :
            EditModLogChannel(member, content)
    \/ \E issuer \in Moderators, user \in {"ann"}, reason \in {"spam"} :
            WarnBegin("w1", issuer, user, reason)
    \/ WarnCount("w1")
SpecConfig == ConfigInit /\ [][ConfigNext]_vars

\* ------------------------------------------------ prompts: interactive waits
\* The commands and buttons that answer with instructions and then wait for a
\* message of the same author in the same channel.
Prompts ==
    {"modmenu", "setCategory", "ticketDesc", "channelDesc",
     "edit_warn_threshold", "edit_mod_log_channel"}
MenuButtons == {"edit_warn_threshold", "edit_mod_log_channel"}


promptFrame == <<warnVars, ticketVars, filterVars, storeVars, auditVars, api, gd, panel>>

\* The exception class each wait names in its `except`: wait_for raises
\* asyncio.TimeoutError, which is the builtin TimeoutError from Python 3.11 on
\* and a different class before.
ExceptClause(handler) ==
    IF handler = "edit_warn_threshold" THEN "asyncio.TimeoutError" ELSE "TimeoutError"
Caught(handler, builtin) ==
    ExceptClause(handler) = "asyncio.TimeoutError" \/ builtin

Prompt(handler, pc, menu, builtin) ==
    [handler |-> handler, pc |-> pc, menu |-> menu, builtin |-> builtin]

\* A command or button answers with its instructions and suspends in
\* `wait_for("message", check=check, timeout=...)`; the buttons exist once
\* the menu has been sent.
wait_for(handler) ==
    /\ pr.pc # "waiting"
    /\ handler \in MenuButtons => pr.menu
    /\ pr' = Prompt(handler, "waiting", pr.menu, pr.builtin)
    /\ reply' = [cmd |-> handler, out |-> "instructions"]
    /\ UNCHANGED <<settings, promptFrame>>

\* The wait ends by timeout.  Where the `except` names the class raised, the
\* follow-up is sent and a button goes on to refresh the menu; where it does
\* not, the exception leaves the handler: a command's goes to on_app_error,
\* which sends its generic follow-up, a button's to View.on_error, which logs.
TimeoutRaised ==
    /\ pr.pc = "waiting"
    /\ IF Caught(pr.handler, pr.builtin) THEN
            /\ reply' = [cmd |-> pr.handler, out |-> "You took too long to respond"]
            /\ settings' = IF pr.handler \in MenuButtons
                           THEN create_modmenu_embed(settings) ELSE settings
            /\ pr' = [pr EXCEPT !.pc = "timed out"]
       ELSE
            /\ reply' = IF pr.handler \in MenuButtons THEN reply
                        ELSE [cmd |-> pr.handler, out |-> "Something went wrong. Contact an admin."]
            /\ UNCHANGED settings
            /\ pr' = [pr EXCEPT !.pc = "raised"]
    /\ UNCHANGED promptFrame

\* The message arrives: the rest of the handler.
MessageReceived(content) ==
    /\ pr.pc = "waiting"
    /\ LET h == pr.handler
           Answer(out, doc, pc) ==
                /\ reply' = [cmd |-> h, out |-> out]
                /\ settings' = doc
                /\ pr' = [pr EXCEPT !.pc = pc, !.menu = @ \/ (h = "modmenu" /\ pc = "sent")]
       IN  CASE h = "modmenu" ->
                    IF content = "yes"
                    THEN Answer("menu", create_modmenu_embed(settings), "sent")
                    ELSE Answer("instructions", settings, "declined")
             [] h = "setCategory" ->
                    IF ~IsDigit(content)
                    THEN Answer("The id provided is not a valid number", settings, "rejected")
                    ELSE IF ToInt(content) \notin Categories
                    THEN Answer("The id provided is not a valid category", settings, "rejected")
                    ELSE Answer("Ticket category successfully set",
                                SettingsAfterPut(settings, "tickets.ticket.category", content),
                                "stored")
             [] h = "ticketDesc" ->
                    Answer("Ticket description successfully set",
                           SettingsAfterPut(settings, "tickets.ticket.description", content),
                           "stored")
             [] h = "channelDesc" ->
                    Answer("Ticket description successfully set",
                           SettingsAfterPut(settings, "tickets.embed.description", content),
                           "stored")
             [] h = "edit_warn_threshold" ->
                    IF ~IsDigit(content)
                    THEN Answer("Please enter a valid number",
                                create_modmenu_embed(settings), "rejected")
                    ELSE IF ToInt(content) <= 0
                    THEN Answer("Warn threshold must be greater than 0", settings, "rejected")
                    ELSE Answer("Warn threshold set",
                                create_modmenu_embed(
                                    SettingsAfterPut(settings, "warn_threshold", ToInt(content))),
                                "stored")
             [] h = "edit_mod_log_channel" ->
                    IF ~IsDigit(content)
                    THEN Answer("That's not a valid channel ID",
                                create_modmenu_embed(settings), "rejected")
                    ELSE IF ToInt(content) \notin Categories
                    THEN Answer("Channel was not found",
                                create_modmenu_embed(settings), "rejected")
                    ELSE Answer("Channel set",
                                create_modmenu_embed(
                                    SettingsAfterPut(
                                        SettingsAfterGet(settings, "mod_log_channel", "None"),
                                        "mod_log_channel", IdText(ToInt(content)))),
                                "stored")
    /\ UNCHANGED promptFrame

\* /ticket: the embed with the "Create ticket" button; its description, its
\* colour and its thumbnail are read with their defaults.
TicketCommand ==
    /\ reply' = [cmd |-> "ticket",
                 out |-> SettingsValue(settings, "tickets.embed.description",
                                       "Please set a ticket description first!")]
    /\ settings' = SettingsAfterGet(
                        SettingsAfterGet(
                            SettingsAfterGet(settings, "tickets.embed.description",
                                             "Please set a ticket description first!"),
                            "embed.color", "#5865F2"),
                        "embed.thumbnail", "")
    /\ UNCHANGED <<pr, promptFrame>>

PromptInit ==
    /\ SettingsInit /\ LedgerInit /\ NoStore /\ NoAudit /\ NoApi /\ NoGuilds /\ NoPanel /\ NoTicket /\ NoMessage
    /\ \E builtin \in BOOLEAN : pr = Prompt("none", "done", FALSE, builtin)
PromptNext ==
    \/ \E handler \in Prompts : wait_for(handler)
    \/ TimeoutRaised
    \/ \E content \in Typed : MessageReceived(content)
    \/ TicketCommand
    \/ \E user \in {"ann"} : create_ticket_button(user)
SpecPrompt == PromptInit /\ [][PromptNext]_vars

\* ------------------------------------------------------------ companion API
\* cogs/*.py, and the names a request may carry
CogFiles == {"moderation", "tickets"}
CogNames == CogFiles \cup {"ghost"}
\* Attribute paths asked of /bot-attribute: one the bot has, one nothing
\* has, one every object has (None included).
Attributes == {"user", "nope", "__class__"}
Routes == {"/latency", "/bot-attribute", "/cogs", "/logs", "/heartbeat"}
StopSteps == <<"ledger closed", "connection closed", "200 returned", "process exit">>

Response(route, status, body, code) ==
    [route |-> route, status |-> status, body |-> body, code |-> code]

\* Database.close(): `if self.connection` is true of a closed connection as
\* well, so commit() runs and raises sqlite3.ProgrammingError on one.
Close(db) ==
    IF db = "open" THEN [db |-> "closed", raised |-> "none"]
    ELSE [db |-> db, raised |-> "ProgrammingError"]

\* (mutant) toggle_cog without its look into BOT.extensions: loading a loaded
\* extension and unloading one that is not loaded raise
ToggleCogUnguarded(extensions, cog, register, ok) ==
    IF cog \notin CogFiles THEN
        [extensions |-> extensions, body |-> "Cog not found", code |-> 404]
    ELSE IF register THEN
        IF ok /\ cog \notin extensions
        THEN [extensions |-> extensions \cup {cog}, body |-> "registered: true", code |-> 200]
        ELSE [extensions |-> extensions, body |-> "Failed to load cog", code |-> 500]
    ELSE
        IF ok /\ cog \in extensions
        THEN [extensions |-> extensions \ {cog}, body |-> "registered: false", code |-> 200]
        ELSE [extensions |-> extensions, body |-> "Failed to unload cog", code |-> 500]

\* toggle_cog past `assert BOT`: the extensions afterwards and the tuple
\* returned; `ok` is whether load_extension / unload_extension succeeds.
ToggleCog(extensions, cog, register, ok) ==
    IF cog \notin CogFiles THEN
        [extensions |-> extensions, body |-> "Cog not found", code |-> 404]
    ELSE IF register THEN
        IF cog \notin extensions THEN
            IF ok
            THEN [extensions |-> extensions \cup {cog}, body |-> "registered: true", code |-> 200]
            ELSE [extensions |-> extensions, body |-> "Failed to load cog", code |-> 500]
        ELSE [extensions |-> extensions, body |-> "registered: true", code |-> 200]
    ELSE
        IF cog \in extensions THEN
            IF ok
            THEN [extensions |-> extensions \ {cog}, body |-> "registered: false", code |-> 200]
            ELSE [extensions |-> extensions, body |-> "Failed to unload cog", code |-> 500]
        ELSE [extensions |-> extensions, body |-> "registered: false", code |-> 200]

\* os._exit(0) has run: the process is gone.
Exited == \E i \in 1..Len(api.stop) : api.stop[i] = "process exit"

apiFrame == <<settings, reply, ticketVars, filterVars, storeVars, auditVars, pr, gd, panel>>

\* set_bot(bot)
set_bot ==
    /\ ~api.bot
    /\ api' = [api EXCEPT !.bot = TRUE]
    /\ UNCHANGED <<warnVars, apiFrame>>

\* The routes that only read.  Each is registered by @api.get before
\* bot_check wraps it, so the router calls the function itself: with BOT None
\* an `assert` fails (500), getattr(None, ...) raises AttributeError (404) or
\* finds the attribute (200), and /logs and /heartbeat never look at BOT.
\* A returned (body, code) tuple is sent as a JSON list with status 200.
get(route, attribute, found) ==
    /\ ~Exited
    /\ api' = [api EXCEPT !.resp =
            CASE route = "/latency" ->
                    IF api.bot THEN Response(route, 200, "latency", 200)
                    ELSE Response(route, 500, "AssertionError", 500)
              [] route = "/cogs" ->
                    IF api.bot THEN Response(route, 200, "cogs", 200)
                    ELSE Response(route, 500, "AssertionError", 500)
              [] route = "/bot-attribute" ->
                    IF attribute = "__class__" \/ (api.bot /\ attribute = "user")
                    THEN Response(route, 200, "attribute", 200)
                    ELSE Response(route, 404, "Attribute not found", 404)
              [] route = "/logs" ->
                    IF found THEN Response(route, 200, "lines", 200)
                    ELSE Response(route, 200, "Log file not found", 404)
              [] route = "/heartbeat" -> Response(route, 200, "", 200)]
    /\ UNCHANGED <<warnVars, apiFrame>>

\* /toggle_cog
toggle_cog(cog, register, ok) ==
    /\ ~Exited
    /\ IF ~api.bot
       THEN api' = [api EXCEPT !.resp = Response("/toggle_cog", 500, "AssertionError", 500)]
       ELSE LET r == ToggleCog(api.extensions, cog, register, ok)
            IN  api' = [api EXCEPT !.extensions = r.extensions,
                                   !.resp = Response("/toggle_cog", 200, r.body, r.code)]
    /\ UNCHANGED <<warnVars, apiFrame>>

\* /stop, up to `await BOT.close()`: DATABASE.close() commits and closes
shutdown ==
    /\ ~Exited
    /\ IF ~api.bot THEN
            /\ api' = [api EXCEPT !.resp = Response("/stop", 500, "AssertionError", 500)]
            /\ UNCHANGED committed
       ELSE IF Close(api.db).raised # "none" THEN
            /\ api' = [api EXCEPT !.raised = Close(api.db).raised,
                                  !.resp = Response("/stop", 500, Close(api.db).raised, 500)]
            /\ UNCHANGED committed
       ELSE
            /\ committed' = Commit(warns, seq)
            /\ api' = [api EXCEPT !.db = Close(api.db).db,
                                  !.stop = Append(@, "ledger closed")]
    /\ UNCHANGED <<warns, seq, wh, outcome, live, boots, maxid, apiFrame>>

\* /stop, resumed when BOT.close() is done: delayed_exit is made a task and
\* Response(status_code=200) is returned
shutdown_resume ==
    /\ api.stop = <<"ledger closed">>
    /\ api' = [api EXCEPT !.stop = @ \o <<"connection closed", "200 returned">>,
                          !.resp = Response("/stop", 200, "", 200)]
    /\ UNCHANGED <<warnVars, apiFrame>>

\* (mutant) os._exit(0) without the task having waited for the route
exit_at_once ==
    /\ api.bot
    /\ ~Exited
    /\ api' = [api EXCEPT !.stop = Append(@, "process exit")]
    /\ UNCHANGED <<warnVars, apiFrame>>

\* delayed_exit: asyncio.sleep(0.5), then os._exit(0)
delayed_exit ==
    /\ Len(api.stop) = 3
    /\ api' = [api EXCEPT !.stop = Append(@, "process exit")]
    /\ UNCHANGED <<warnVars, apiFrame>>

\* bot_setup, once a signal has set stop_event: DATABASE.close()
bot_setup ==
    /\ ~Exited
    /\ ~api.signalled
    /\ api' = [api EXCEPT !.signalled = TRUE,
                          !.db = Close(api.db).db,
                          !.raised = Close(api.db).raised]
    /\ committed' = IF api.db = "open" THEN Commit(warns, seq) ELSE committed
    /\ UNCHANGED <<warns, seq, wh, outcome, live, boots, maxid, apiFrame>>

ApiInit == SettingsInit /\ LedgerInit /\ ExtIdle /\ NoTicket /\ NoMessage
ApiNext ==
    \/ set_bot
    \/ \E route \in Routes, attribute \in Attributes, found \in BOOLEAN :
            get(route, attribute, found)
    \/ \E cog \in CogNames, register \in BOOLEAN, ok \in BOOLEAN :
            toggle_cog(cog, register, ok)
    \/ shutdown
    \/ shutdown_resume
    \/ delayed_exit
    \/ bot_setup
    \/ \E issuer \in Moderators, user \in {"ann"}, reason \in {"spam"} :
            api.db = "open" /\ WarnBegin("w1", issuer, user, reason)
    \/ api.db = "open" /\ WarnCount("w1")
SpecApi == ApiInit /\ [][ApiNext]_vars

\* ------------------------------------------------------ the guild restriction
Guilds == {"g1", "g2", "g3"}

\* bot.guilds without one guild
Without(guilds, g) == SelectSeq(guilds, LAMBDA x : x # g)

\* (mutant) on_guild_join takes every guild for the allowed one
UnauthorizedNever(guild_id, allowed_guild_id) == FALSE

\* `guild.id != allowed_guild_id`
Unauthorized(guild_id, allowed_guild_id) == guild_id # allowed_guild_id

guildFrame == <<reply, warnVars, ticketVars, filterVars, storeVars, auditVars, pr, api, panel>>

\* The gateway reports a guild the bot was added to while it is connected:
\* the guild enters the cache and on_guild_join is dispatched for it.
guild_join(guild) ==
    /\ \A i \in 1..Len(gd.guilds) : gd.guilds[i] # guild
    /\ gd.jh[guild] = "none"
    /\ gd' = [gd EXCEPT !.guilds = Append(@, guild), !.jh[guild] = "dispatched"]
    /\ UNCHANGED <<settings, guildFrame>>

\* on_guild_join, up to `await guild.leave()`
on_guild_join(guild) ==
    /\ gd.jh[guild] = "dispatched"
    /\ LET allowed_guild_id == SettingsValue(settings, "guild", "None")
       IN  IF allowed_guild_id = "None" THEN
                /\ settings' = SettingsAfterPut(settings, "guild", guild)
                /\ gd' = [gd EXCEPT !.jh[guild] = "none"]
           ELSE IF Unauthorized(guild, allowed_guild_id) THEN
                /\ settings' = settings
                /\ gd' = [gd EXCEPT !.jh[guild] = "leaving"]
           ELSE
                /\ settings' = settings
                /\ gd' = [gd EXCEPT !.jh[guild] = "none"]
    /\ UNCHANGED guildFrame

\* on_ready, from the start to the awaits of load_extensions and tree.sync
\* (it runs again on every reconnect)
on_ready_sync ==
    /\ gd.pc \in {"idle", "done", "failed"}
    /\ gd' = [gd EXCEPT !.pc = "syncing"]
    /\ UNCHANGED <<settings, guildFrame>>

\* on_ready, "Verifying guild restrictions", up to the first
\* `await guild.leave()`: both loops run over a copy of bot.guilds
on_ready ==
    /\ gd.pc = "syncing"
    /\ LET original_guild_id == SettingsValue(settings, "guild", "None")
           todo == IF original_guild_id = "None" /\ gd.guilds # <<>>
                   THEN Tail(gd.guilds)
                   ELSE Without(gd.guilds, original_guild_id)
       IN  /\ settings' = IF original_guild_id = "None" /\ gd.guilds # <<>>
                          THEN SettingsAfterPut(settings, "guild", Head(gd.guilds))
                          ELSE SettingsAfterGet(settings, "guild", "None")
           /\ gd' = [gd EXCEPT !.todo = todo,
                               !.pc = IF todo = <<>> THEN "done" ELSE "leaving"]
    /\ UNCHANGED guildFrame

\* `await guild.leave()` of on_ready (handler = "on_ready") or of the
\* on_guild_join of a guild: the bot leaves; leaving a guild it has left
\* already raises, which ends the handler.
leave(handler) ==
    /\ IF handler = "on_ready" THEN gd.pc = "leaving" ELSE gd.jh[handler] = "leaving"
    /\ LET guild == IF handler = "on_ready" THEN Head(gd.todo) ELSE handler
           member == \E i \in 1..Len(gd.guilds) : gd.guilds[i] = guild
       IN  gd' = IF handler = "on_ready"
                 THEN [gd EXCEPT !.guilds = Without(@, guild),
                                 !.todo = IF member THEN Tail(@) ELSE @,
                                 !.pc = IF ~member THEN "failed"
                                        ELSE IF Tail(gd.todo) = <<>> THEN "done"
                                        ELSE "leaving"]
                 ELSE [gd EXCEPT !.guilds = Without(@, guild),
                                 !.jh[guild] = "none"]
    /\ UNCHANGED <<settings, guildFrame>>

\* A start of the bot: the guilds it is in (some joined while it was off),
\* and the guild an earlier run registered, if any.
GuildInit ==
    /\ LedgerInit /\ NoStore /\ NoAudit /\ NoPrompt /\ NoApi /\ NoPanel /\ NoTicket /\ NoMessage
    /\ reply = [cmd |-> "none", out |-> "none"]
    /\ \E registered \in {<<>>} \cup {("guild" :> g) : g \in Guilds} : settings = registered
    /\ \E S \in SUBSET Guilds :
        \E guilds \in [1..Cardinality(S) -> S] :
            /\ \A i, j \in 1..Cardinality(S) : guilds[i] = guilds[j] => i = j
            /\ gd = [guilds |-> guilds, pc |-> "idle", todo |-> <<>>,
                     jh |-> [g \in Guilds |-> "none"]]
GuildNext ==
    \/ \E guild \in Guilds : guild_join(guild)
    \/ \E guild \in Guilds : on_guild_join(guild)
    \/ on_ready_sync
    \/ on_ready
    \/ \E handler \in Guilds \cup {"on_ready"} : leave(handler)
SpecGuild == GuildInit /\ [][GuildNext]_vars

\* ------------------------------------------------------------ the web panel
MaxForward == 2     \* requests the panel passes on to the companion API
Clients == {"c1", "c2"}
\* The "password" field of the login form: absent, wrong, or the secret.
Passwords == {"absent", "guess", "s3cret"}
webpanel_password == "s3cret"
\* str(password): the text of a field, "None" of an absent one
Str(password) == IF password = "absent" THEN "None" ELSE password

\* (mutant) a comparison that every password passes
compare_anything(a, b) == TRUE

\* secrets.compare_digest(a, b)
compare_digest(a, b) == a = b

panelFrame == <<settings, reply, warnVars, ticketVars, filterVars, storeVars, auditVars, pr, api, gd>>

\* POST /login: login_user puts the root user into the client's session
login(client, password) ==
    /\ IF compare_digest(Str(password), Str(webpanel_password))
       THEN panel' = [panel EXCEPT
                        !.logged_in = @ \cup {client},
                        !.proved = @ \cup {c \in {client} : password = webpanel_password},
                        !.resp = [client |-> client, route |-> "/login", status |-> 302]]
       ELSE panel' = [panel EXCEPT
                        !.proved = @ \cup {c \in {client} : password = webpanel_password},
                        !.resp = [client |-> client, route |-> "/login", status |-> 200]]
    /\ UNCHANGED panelFrame

\* POST /api behind @login_required: without the user in the session the
\* unauthorized handler answers 401; with it, a body without
\* internal_api_url gets 400, and anything else is sent on with requests.get
\* (400 when the bot does not answer, its own status otherwise)
panel_api(client, internal_api_url, online) ==
    /\ IF client \notin panel.logged_in THEN
            panel' = [panel EXCEPT !.resp = [client |-> client, route |-> "/api", status |-> 401]]
       ELSE IF internal_api_url = "" THEN
            panel' = [panel EXCEPT !.resp = [client |-> client, route |-> "/api", status |-> 400]]
       ELSE
            /\ Len(panel.forwarded) < MaxForward
            /\ panel' = [panel EXCEPT
                            !.forwarded = Append(@, [client |-> client, url |-> internal_api_url]),
                            !.resp = [client |-> client, route |-> "/api",
                                      status |-> IF online THEN 200 ELSE 400]]
    /\ UNCHANGED panelFrame

PanelInit == SettingsInit /\ LedgerInit /\ ExtIdle /\ NoTicket /\ NoMessage
PanelNext ==
    \/ \E client \in Clients, password \in Passwords : login(client, password)
    \/ \E client \in Clients, internal_api_url \in {"", "/stop", "/cogs"}, online \in BOOLEAN :
            panel_api(client, internal_api_url, online)
SpecPanel == PanelInit /\ [][PanelNext]_vars

\* C1: whenever a /warn handler reads the count of its subject (the SELECT
\* after its INSERT), the number it reads is the number of warnings inserted
\* for that subject and not deleted since, whatever warn and clearwarn steps
\* came before or in between.
C1_CountIsLiveWarnings ==
    [][\A h \in WarnHandlers :
          (wh[h].pc = "inserted" /\ wh'[h].pc = "idle") =>
              /\ outcome'.user = wh[h].user
              /\ outcome'.warn_count = live'[wh[h].user]]_vars

\* C1 witness: a count was read after two inserts and a deletion
C1_Witness ==
    /\ outcome.handler # "none"
    /\ outcome.warn_count = 1
    /\ live[outcome.user] = 1
    /\ seq >= 2
    /\ Cardinality(warns) = 1
    /\ \A h \in WarnHandlers : wh[h].pc = "idle"

\* C2: a /warn escalates exactly when the count it reads after its insert is a
\* positive multiple of warn_threshold, the timeout is
\* min(5 * (count / warn_threshold), 10080) minutes, and for one threshold
\* the minutes never decrease as the count grows.
C2_EscalatesOnPositiveMultiple ==
    outcome.handler # "none" =>
        /\ outcome.escalated <=>
              (outcome.warn_count > 0 /\ outcome.warn_count % outcome.warn_threshold = 0)
        /\ outcome.escalated =>
              outcome.minutes =
                 (IF 5 * (outcome.warn_count \div outcome.warn_threshold) < 10080
                  THEN 5 * (outcome.warn_count \div outcome.warn_threshold) ELSE 10080)
        /\ \A t \in 1..MaxThreshold, c \in 0..MaxWarns :
              Duration(c, t) <= Duration(c + 1, t)

C4_CloseOnlyByClaimant ==
    [][/\ (ticket.channel = "live" /\ ticket'.channel = "deleted") =>
            \E i \in 1..Len(th) :
                /\ th[i].kind = "close" /\ th[i].pc = "dm"
                /\ th'[i].out = "Ticket closed."
                /\ th[i].status = ClaimedBy(th[i].user)
       /\ \A i \in 1..Len(th') :
            (th'[i].kind = "close" /\ th'[i].status # ClaimedBy(th'[i].user)) =>
                th'[i].pc = "done"
       /\ (Len(th') = Len(th) + 1 /\ th'[Len(th')].kind = "close") =>
            /\ ticket.status = Open =>
                 /\ th'[Len(th')].out = "The ticket isn't claimed yet."
                 /\ ticket' = ticket /\ deletes' = deletes
            /\ (ticket.status # Open /\ ticket.status # ClaimedBy(th'[Len(th')].user)) =>
                 /\ th'[Len(th')].out = "You can't close this ticket"
                 /\ ticket' = ticket /\ deletes' = deletes]_vars

\* C4 witness: a close by another member was refused and the claimant's close
\* deleted the channel
C4_Witness ==
    /\ ticket.channel = "deleted"
    /\ \E i, j \in 1..Len(th) :
        /\ th[i].kind = "close" /\ th[i].out = "You can't close this ticket"
        /\ th[j].kind = "close" /\ th[j].out = "Ticket closed."
        /\ th[j].status = ClaimedBy(th[j].user)

\* C5: a close by the claimant deletes the channel exactly once: once it has
\* answered "Ticket closed." the channel is deleted, and channel.delete() is
\* never called a second time, however the claimant's presses interleave.
C5_DeletedExactlyOnce ==
    /\ deletes <= 1
    /\ \A i \in 1..Len(th) :
        (th[i].kind = "close" /\ th[i].out = "Ticket closed.") => ticket.channel = "deleted"

\* C6: claimed(by=X) is entered from open only: while the ticket lives, a
\* status other than "open" never changes, so a claim on a ticket claimed by
\* Y leaves Y the claimant.
C6_ClaimedOnlyFromOpen ==
    [][(ticket.channel = "live" /\ ticket.status # Open) =>
            ticket'.status = ticket.status]_vars

\* A message written by a member of the community: none of the early returns
\* of the listeners applies.
FromMember == msg.guild /\ ~msg.bot /\ ~msg.system /\ msg.member
Ended(f) == fh[f].pc \in {"done", "failed"}
Recipients ==
    msg.mentions
    \cup UNION {RoleMembers(r) : r \in {q \in msg.role_mentions : Mentionable(q)}}
    \cup (IF msg.mention_everyone THEN Members ELSE {})

C8_CapsDeletedIffOverPercent ==
    (Ended("caps") /\ FromMember /\ ~msg.can_manage_messages) =>
        /\ "max_caps_percent" \in DOMAIN settings
        /\ ~exists <=> /\ msg.length > 0
                       /\ 100 * msg.caps > settings["max_caps_percent"] * msg.length

\* C9: on a message of a bot account, a system message or a direct message
\* the two filters do nothing: the message stays, nobody is notified, nothing
\* is logged, and no filter gets as far as a deletion.
C9_FiltersIgnoreBotSystemDM ==
    (msg.bot \/ msg.system \/ ~msg.guild) =>
        /\ exists
        /\ modlog = {}
        /\ \A f \in Filters :
              /\ ~fh[f].deleted /\ ~fh[f].notified
              /\ fh[f].pc \in {"start", "done"}

\* A bot posts an all-capitals message that mentions everybody, under limits
\* that would remove it; both listeners have returned.
C9_Witness ==
    /\ msg.bot /\ msg.guild
    /\ msg.length = 3 /\ msg.caps = 3
    /\ msg.mention_everyone
    /\ ~msg.can_mention_everyone /\ ~msg.can_manage_messages
    /\ SettingsValue(settings, "max_ping_count", 2) = 0
    /\ SettingsValue(settings, "max_caps_percent", 30) = 0
    /\ \A f \in Filters : fh[f].pc = "done"
    /\ exists

\* C10: when a member's message breaks both the ping and the caps policy,
\* neither listener ends with an error leaving its coroutine, and when both
\* have ended the message is gone.
C10_BothDeleteWithoutFailure ==
    ( /\ FromMember
      /\ ~msg.can_mention_everyone /\ ~msg.can_manage_messages
      /\ Cardinality(Recipients) >= SettingsValue(settings, "max_ping_count", 2)
      /\ msg.length > 0
      /\ 100 * msg.caps > SettingsValue(settings, "max_caps_percent", 30) * msg.length )
    => /\ \A f \in Filters : fh[f].pc # "failed"
       /\ (\A f \in Filters : Ended(f)) => ~exists

\* The intermediate segments of a path, and whether one of them holds a
\* stored value in a document.
Intermediates(path) == {Prefix(path, n) : n \in 1..(Len(path) - 1)}
Blocked(doc, path) == \E q \in Intermediates(path) : q \in DOMAIN doc /\ ~doc[q].dict
Unrelated(p, q) == ~IsPrefix(p, q) /\ ~IsPrefix(q, p)

\* C11: a get_or_create(path, default) that returns never overwrites.  Where
\* the path exists it returns what is stored and leaves memory and file as
\* they were.  Where the path is absent it creates the missing intermediate
\* mappings, stores the default, returns it and saves; every get_or_create on
\* the same path that follows, with any default, returns that value and
\* changes nothing.
C11_GetOrCreateNeverOverwrites ==
    [][(call'.op = "get_or_create" /\ call'.raised = "none") =>
        LET path == call'.path
        IN  IF path \in DOMAIN mem
            THEN /\ call'.ret = mem[path]
                 /\ mem' = mem
                 /\ disk' = disk
            ELSE /\ call'.arg # {}
                 /\ \A default \in call'.arg :
                      /\ call'.ret = Leaf(default)
                      /\ mem'[path] = Leaf(default)
                      /\ \A other \in Values :
                            LET again == GetOrCreate(mem', disk', path, {other})
                            IN  /\ again.ret = Leaf(default)
                                /\ again.mem = mem'
                                /\ again.disk = disk'
                 /\ \A q \in Intermediates(path) : q \in DOMAIN mem' /\ mem'[q].dict
                 /\ DOMAIN mem' = DOMAIN mem \cup Intermediates(path) \cup {path}
                 /\ \A q \in DOMAIN mem : mem'[q] = mem[q]
                 /\ disk' = mem']_vars

\* get_or_create("a.b.c", 5) on the empty store left {a: {b: {c: 5}}} in
\* memory and in the file; a second call with default 7 has just returned 5.
C11_Witness ==
    /\ DOMAIN mem = {<<"a">>, <<"a", "b">>, <<"a", "b", "c">>}
    /\ mem[<<"a">>] = DictNode /\ mem[<<"a", "b">>] = DictNode
    /\ mem[<<"a", "b", "c">>] = Leaf(5)
    /\ disk = mem
    /\ call.op = "get_or_create" /\ call.path = <<"a", "b", "c">>
    /\ call.arg = {7} /\ call.had
    /\ call.ret = Leaf(5) /\ call.raised = "none"

\* C12: a put(path, value) that returns has stored value at the path in
\* memory and in the file, whatever the path held; it returns value, a
\* get_or_create on the path returns value for every default, and the paths
\* that are neither above nor below the path keep their nodes.
C12_PutOverwritesAndPersists ==
    [][(call'.op = "put" /\ call'.raised = "none") =>
        LET path == call'.path
        IN  \A value \in call'.arg :
              /\ call'.ret = Leaf(value)
              /\ path \in DOMAIN mem' /\ mem'[path] = Leaf(value)
              /\ path \in DOMAIN disk' /\ disk'[path] = Leaf(value)
              /\ disk' = mem'
              /\ \A default \in Values :
                    GetOrCreate(mem', disk', path, {default}).ret = Leaf(value)
              /\ \A q \in DOMAIN mem :
                    Unrelated(q, path) => q \in DOMAIN mem' /\ mem'[q] = mem[q]
              /\ \A q \in DOMAIN mem' : Unrelated(q, path) => q \in DOMAIN mem]_vars

\* put("a.b", 7) replaced what "a.b" held, next to an untouched "b.c".
C12_Witness ==
    /\ call.op = "put" /\ call.path = <<"a", "b">> /\ call.arg = {7}
    /\ call.had /\ call.raised = "none" /\ call.ret = Leaf(7)
    /\ mem[<<"a", "b">>] = Leaf(7)
    /\ <<"b", "c">> \in DOMAIN mem /\ mem[<<"b", "c">>] = Leaf(5)
    /\ disk = mem

\* C13: put and get_or_create raise ValueError exactly when an intermediate
\* segment of the path holds a stored value, and a call that raised it left
\* the document in memory and the file as they were.
C13_BlockedPathRaisesAndChangesNothing ==
    [][(call'.op \in {"put", "get_or_create"}) =>
        /\ Blocked(mem, call'.path) <=> call'.raised = "ValueError"
        /\ call'.raised = "ValueError" => mem' = mem /\ disk' = disk]_vars

\* "a.b" holds a value and get_or_create("a.b.c", 5) has just raised.
C13_Witness ==
    /\ call.op = "get_or_create" /\ call.path = <<"a", "b", "c">> /\ call.arg = {5}
    /\ call.raised = "ValueError"
    /\ <<"a", "b">> \in DOMAIN mem /\ ~mem[<<"a", "b">>].dict
    /\ disk = mem

\* The listeners that correlate through lookup_audit_log.
UsesLookup == au.listener \in {"ban", "timeout"}
Correlated == au.pc \in {"log", "done"} /\ au.fetches > 0

\* C14: lookup_audit_log on an empty trail returns no entry after its one
\* fetch; on a trail whose most recent entry has the target user as target
\* it returns that entry after the one first fetch, without a scan.
C14_EmptyOrFirstMatchOneFetch ==
    (UsesLookup /\ Correlated) =>
        /\ au.first_entry = NoEntry =>
              au.final_entry = NoEntry /\ au.fetches = 1
        /\ (au.first_entry # NoEntry /\ au.first_entry.target = au.target) =>
              au.final_entry = au.first_entry /\ au.fetches = 1

\* A timeout of ann is looked up on a trail of two entries whose most recent
\* one is ann's: that entry is returned after one fetch.
C14_Witness ==
    /\ au.listener = "timeout" /\ au.target = "ann" /\ au.pc = "done"
    /\ Len(trail) = 2
    /\ au.first_entry = trail[1] /\ trail[1].target = "ann" /\ trail[1].kind = "Member"
    /\ au.final_entry = trail[1]
    /\ au.fetches = 1 /\ au.logged = "attributed"

\* The first entry among the search_limit entries that follow the most
\* recent one whose target is the target user.
RECURSIVE FirstFurtherMatch(_, _, _, _)
FirstFurtherMatch(entries, target, from, to) ==
    IF from > to \/ from > Len(entries) THEN NoEntry
    ELSE IF entries[from].target = target THEN entries[from]
    ELSE FirstFurtherMatch(entries, target, from + 1, to)

\* C15: when the most recent entry does not match, the scan of
\* lookup_audit_log returns the most recent of the search_limit further
\* entries whose target is the target user, and None only when none of them
\* matches.
C15_ScanReturnsFirstFurtherMatch ==
    [][(UsesLookup /\ au.pc = "scan" /\ au'.pc = "log"
        /\ trail # <<>> /\ trail[1] = au.first_entry) =>
          au'.final_entry = FirstFurtherMatch(trail, au.target, 2, 1 + au.limit)]_vars

\* C16: no listener has queried the audit trail without its delay having
\* elapsed first.
C16_DelayBeforeFirstQuery ==
    au.fetches > 0 => au.waited

\* C17: a listener that ends after a correlation without a match has written
\* a log entry that says so.
C17_NoMatchIsLogged ==
    (au.pc = "done" /\ au.fetches > 0 /\ au.final_entry = NoEntry) =>
        au.logged \in {"no matching audit entry", "logger.error"}

\* C18: a warning in the ledger leaves it only by a clearwarn with its id:
\* in every step that removes a row the process kept running and the step
\* is the DELETE of that id; stops and restarts remove nothing.
C18_OnlyClearwarnDestroys ==
    [][\A r \in warns :
          r \notin warns' =>
              /\ boots' = boots
              /\ reply' = [cmd |-> "clearwarn", out |-> "cleared"]
              /\ warns' = DeleteById(warns, r.id)]_vars

\* C19: ids are unique over the whole history: the rows of the ledger have
\* distinct ids, a warning being created gets an id no warning was ever
\* created with, and no step changes the subject or reason under an id.
C19_IdsNeverReused ==
    [][/\ \A r1, r2 \in warns' : r1.id = r2.id => r1 = r2
       /\ boots' = boots => \A r \in warns' \ warns : r.id > maxid
       /\ \A r \in warns : \A q \in warns' : q.id = r.id => q = r]_vars

\* The three limits as the cog reads them: the stored value, or the default.
Stored3(doc) ==
    <<SettingsValue(doc, "warn_threshold", 5),
      SettingsValue(doc, "max_ping_count", 2),
      SettingsValue(doc, "max_caps_percent", 30)>>
InRange(limits) ==
    /\ limits[1] >= 1
    /\ limits[2] >= 0
    /\ limits[3] >= 0 /\ limits[3] <= 100

\* C20: through the mod-menu edits the limits stay in range (warn_threshold
\* >= 1, max_ping_count >= 0, 0 <= max_caps_percent <= 100); an edit that
\* does not answer "set" leaves all three as they were; and every /warn
\* that has counted took its modulo by a threshold of at least 1.
C20_LimitsStayInRange ==
    [][/\ InRange(Stored3(settings'))
       /\ reply'.out # "set" => Stored3(settings') = Stored3(settings)
       /\ outcome'.handler # "none" => outcome'.warn_threshold >= 1]_vars

\* Threshold 1 was stored, a later edit to 0 has just been rejected, and the
\* /warn that ran took its modulo by 1.
C20_Witness ==
    /\ reply = [cmd |-> "edit_warn_threshold", out |-> "must be greater than 0"]
    /\ "warn_threshold" \in DOMAIN settings /\ settings["warn_threshold"] = 1
    /\ "max_caps_percent" \in DOMAIN settings /\ settings["max_caps_percent"] = 100
    /\ outcome.handler = "w1" /\ outcome.warn_threshold = 1 /\ outcome.escalated

\* C22: when the claimant closes a claimed ticket and the private message to
\* the creator cannot be delivered, the failure is not surfaced and the
\* channel is still deleted: every close handler that got past the claimant
\* check and past `member.send` has not ended in the delivery error, and the
\* ticket's channel is deleted.
C22_CloseSurvivesUndeliveredDM ==
    \A i \in 1..Len(th) :
        (th[i].kind = "close" /\ (th[i].pc = "failed" \/ th[i].out = "Ticket closed."))
            => th[i].err # "Forbidden" /\ ticket.channel = "deleted"

\* C25: /clearwarn with an id that is not in the ledger answers "not found"
\* and leaves the rows and every subject's count as they were; with an id
\* that is in the ledger it answers "cleared" and removes that row and no
\* other, lowering only its subject's count by one.
C25_ClearwarnRemovesExactlyThatWarning ==
    [][\A issuer \in Moderators, warn_id \in 1..MaxWarns :
          ClearWarn(issuer, warn_id) =>
            IF \A r \in warns : r.id # warn_id
            THEN /\ reply' = [cmd |-> "clearwarn", out |-> "not found"]
                 /\ warns' = warns
                 /\ live' = live
            ELSE /\ reply' = [cmd |-> "clearwarn", out |-> "cleared"]
                 /\ warns' = {r \in warns : r.id # warn_id}
                 /\ Cardinality(warns') = Cardinality(warns) - 1
                 /\ \E r \in warns :
                        /\ r.id = warn_id
                        /\ live' = [live EXCEPT ![r.user_id] = @ - 1]]_vars

\* a warning was cleared while another one is kept
C25_Witness ==
    /\ reply = [cmd |-> "clearwarn", out |-> "cleared"]
    /\ \E r \in warns : live[r.user_id] = 1 /\ maxid = 2

\* C21: when an interactive wait ends by timeout, the operation is abandoned,
\* a follow-up reaches the user (the handler's own notice, or the generic one
\* of the command error handler), and the timeout leaves the settings as
\* they were.
C21_TimeoutAbandonsAndNotifies ==
    [][(pr.pc = "waiting" /\ pr'.pc \in {"timed out", "raised"}) =>
            /\ reply'.cmd = pr.handler
            /\ reply'.out \in {"You took too long to respond",
                               "Something went wrong. Contact an admin."}
            /\ settings' = settings]_vars

\* C28: after 'ticketDesc' has stored a text, the embed /ticket sends next
\* shows that text; after 'channelDesc' has stored a text, the embed of the
\* ticket channel created next shows that text.
C28_OptionsSetTheirEmbeds ==
    [][/\ (pr.handler = "ticketDesc" /\ pr.pc = "stored" /\ TicketCommand) =>
            reply'.out = settings["tickets.ticket.description"]
       /\ (pr.handler = "channelDesc" /\ pr.pc = "stored"
            /\ ticket.channel = "none" /\ ticket'.channel = "live") =>
            ticket'.description = settings["tickets.embed.description"]]_vars

\* C23: while no bot instance is set, a request to any route other than
\* /heartbeat is answered with status 404 and has none of the route's
\* effects: no log lines are served, no extension is loaded or unloaded, the
\* ledger's connection is left alone.
C23_UnsetBotAnswers404 ==
    [][(~api.bot /\ api'.resp # api.resp /\ api'.resp.route # "/heartbeat") =>
            /\ api'.resp.status = 404
            /\ api'.resp.body # "lines"
            /\ api'.extensions = api.extensions
            /\ api'.db = api.db]_vars

\* C24: /stop closes the ledger (committing what is pending), then closes the
\* platform connection, then returns 200, and the process exits after that:
\* the steps taken are always a prefix of that order, and once the process
\* has exited the connection is closed and the file holds every row.
C24_StopOrder ==
    /\ \E n \in 0..Len(StopSteps) : api.stop = SubSeq(StopSteps, 1, n)
    /\ Exited => /\ api.db = "closed"
                 /\ committed = [rows |-> warns, seq |-> seq]

\* the process has exited through /stop, which committed a pending warning
C24_Witness ==
    /\ api.stop = StopSteps
    /\ api.signalled = FALSE
    /\ committed.rows # {}

\* C27: no call of Database.close() raises, the second one after a first
\* one included (/stop followed by the signal-driven shutdown, or the other
\* way round).
C27_SecondCloseIsSafe == api.raised = "none"

\* C29: a /toggle_cog call for a cog whose file exists that reports success
\* leaves the cog loaded iff register is true, and the same call made again
\* returns the same result and leaves the loaded set as it is; for a cog with
\* no file the call reports an error and the loaded set is unchanged.
C29_ToggleIsIdempotent ==
    [][\A cog \in CogNames, register \in BOOLEAN, ok \in BOOLEAN :
          (api.bot /\ toggle_cog(cog, register, ok)) =>
            IF cog \in CogFiles
            THEN api'.resp.code = 200 =>
                    /\ (cog \in api'.extensions) <=> register
                    /\ ToggleCog(api'.extensions, cog, register, ok) =
                            [extensions |-> api'.extensions,
                             body |-> api'.resp.body, code |-> api'.resp.code]
            ELSE /\ api'.resp.code # 200
                 /\ api'.resp.body = "Cog not found"
                 /\ api'.extensions = api.extensions]_vars

\* a cog was unloaded by /toggle_cog while another one stays loaded
C29_Witness ==
    /\ api.resp.route = "/toggle_cog"
    /\ api.resp.body = "registered: false"
    /\ api.extensions = {"tickets"}

\* on_ready has run to its end (or was ended by an exception) and no
\* on_guild_join is dispatched or suspended
GuildsAtRest(g) == g.pc \in {"done", "failed"} /\ \A x \in Guilds : g.jh[x] = "none"

\* C26: whenever on_ready and every on_guild_join have finished, the bot is in
\* at most one guild, and that guild is the one stored under "guild"; a guild
\* id stored under "guild" is never replaced.
C26_SingleGuild ==
    [][/\ GuildsAtRest(gd') =>
            /\ Len(gd'.guilds) <= 1
            /\ gd'.guilds # <<>> => gd'.guilds[1] = SettingsValue(settings', "guild", "None")
       /\ SettingsValue(settings, "guild", "None") # "None" =>
            SettingsValue(settings', "guild", "None") = SettingsValue(settings, "guild", "None")]_vars

\* on_ready and an on_guild_join both left the same guild (the later call
\* raised), and the bot is left in the registered guild alone
C26_Witness ==
    /\ GuildsAtRest(gd)
    /\ gd.pc = "failed"
    /\ Len(gd.guilds) = 1
    /\ gd.guilds[1] = SettingsValue(settings, "guild", "None")

\* C30: the panel sends a request on only for a client whose session holds
\* the user, and a session holds the user only after that client posted the
\* configured secret to /login; a /api request of a client without such a
\* session gets 401 and nothing is sent on; a login with another password
\* leaves the sessions as they were.
C30_ForwardsOnlyAfterLogin ==
    [][/\ panel'.logged_in \subseteq panel'.proved
       /\ panel'.forwarded # panel.forwarded =>
            /\ panel'.resp.client \in panel.logged_in \cap panel.proved
            /\ panel'.forwarded =
                    Append(panel.forwarded, panel'.forwarded[Len(panel'.forwarded)])
            /\ panel'.forwarded[Len(panel'.forwarded)].client = panel'.resp.client
       /\ (panel'.resp # panel.resp /\ panel'.resp.route = "/api"
            /\ panel'.resp.client \notin panel.logged_in) =>
            /\ panel'.resp.status = 401
            /\ panel'.forwarded = panel.forwarded
       /\ (panel'.resp # panel.resp /\ panel'.resp.route = "/login"
            /\ panel'.resp.client \notin panel'.proved) =>
            panel'.logged_in = panel.logged_in]_vars

\* one client's request was sent on after its login, another client's
\* request was answered 401 after a login with a wrong password
C30_Witness ==
    /\ panel.forwarded # <<>>
    /\ panel.logged_in = {"c1"}
    /\ panel.resp = [client |-> "c2", route |-> "/api", status |-> 401]

\* C31: with two /warn handlers interleaved (and no warning ever cleared),
\* each handler reads, after its insert, the count the subject had before
\* that insert plus one, so that no multiple of warn_threshold is met twice
\* or passed over.
C31_CountIsOwnInsertPlusOne ==
    [][\A h \in WarnHandlers :
          (wh[h].pc = "inserted" /\ wh'[h].pc = "idle" /\ Cardinality(warns) = maxid) =>
                /\ outcome'.handler = h
                /\ outcome'.warn_count = wh[h].before + 1]_vars

\* C32: after every put and every get_or_create, returned or raised, the
\* file holds the document that is in memory.
C32_FileEqualsMemory == mem = disk

\* C33: once the ping filter has finished with a member's message that
\* mentions nobody, the message still exists, whatever max_ping_count >= 0
\* is stored.
C33_NoMentionNoDelete ==
    (Ended("ping") /\ FromMember /\ Recipients = {}) =>
        /\ exists
        /\ ~fh["ping"].deleted

\* C34: a press of a ticket button answers its interaction at most once on
\* every path (a create press without a configured category included), and
\* a create press that is rejected creates no channel.
C34_OneResponsePerPress ==
    /\ ticket.responses <= 1
    /\ \A i \in 1..Len(th) : th[i].pc = "done" => th[i].out # "none"
    /\ (reply.cmd = "create_ticket" /\ reply.out # "Ticket created") => ticket.channel = "none"

C36_DeletionIsLogged ==
    \A f \in Filters :
        (/\ fh[f].pc = "done" /\ fh[f].deleted
         /\ SettingsValue(settings, "mod_log_channel", "None") # "None")
        => f \in modlog

\* C37: whether a /warn escalates, and for how long, is decided by the
\* subject's present number of warnings alone: when the /warn that finished
\* before it escalated the same subject at the same count under the same
\* threshold (the count having been brought down by /clearwarn in between),
\* this one escalates again, with the same duration.
C37_EscalatesAgainAtSameCount ==
    [][\A h \in WarnHandlers :
          (/\ WarnCount(h)
           /\ outcome.escalated
           /\ outcome.user = wh[h].user
           /\ outcome.warn_count = live[wh[h].user]
           /\ outcome.warn_threshold = SettingsValue(settings, "warn_threshold", 5))
          => /\ outcome'.escalated
             /\ outcome'.warn_count = outcome.warn_count
             /\ outcome'.minutes = outcome.minutes]_vars

\* C37 witness: a subject was escalated at one warning, the warning was
\* cleared, and the next /warn of that subject (inserted when the subject had
\* no warning left) escalated at one warning again, for the same minutes
C37_Witness ==
    /\ outcome.escalated /\ outcome.last.escalated
    /\ outcome.last.user = outcome.user
    /\ outcome.last.warn_count = 1 /\ outcome.warn_count = 1
    /\ outcome.before = 0
    /\ maxid = 2
    /\ outcome.minutes = outcome.last.minutes /\ outcome.minutes > 0

\* C38: a /warn aimed at the bot account, at the moderator who issues it or
\* at the administrator is answered with its rejection and does nothing
\* else: no row is added, no count changes, no handler goes on to the count
\* and the timeout, and no outcome is recorded.
C38_ProtectedTargetsAreNotWarned ==
    [][\A h \in WarnHandlers, issuer \in Moderators, reason \in Reasons :
       \A user \in {"bot", "root", issuer} :
          WarnBegin(h, issuer, user, reason) =>
              /\ reply'.cmd = "warn"
              /\ reply'.out \in {"cannot warn bots", "cannot warn yourself",
                                 "cannot warn administrators"}
              /\ warns' = warns /\ seq' = seq /\ live' = live
              /\ wh' = wh /\ outcome' = outcome]_vars

\* C38 witness: the administrator's warning was refused while the ledger
\* held a warning and another /warn was between its INSERT and its count
C38_Witness ==
    /\ reply = [cmd |-> "warn", out |-> "cannot warn administrators"]
    /\ warns # {}
    /\ \E h \in WarnHandlers : wh[h].pc = "inserted"
    /\ live["root"] = 0 /\ live["bot"] = 0 /\ live["mod"] = 0

\* C39: a press of a mod-menu button (warn threshold, max ping, max caps,
\* mod log channel) by a member who is not an administrator is answered
\* with the refusal and leaves the settings as they were, whatever that
\* member types afterwards.
C39_NonAdminPressChangesNothing ==
    [][/\ \A threshold \in -1..MaxTyped :
            EditWarnThreshold("mod", threshold) =>
                (settings' = settings /\ reply'.out = "no permission")
       /\ \A max_ping \in -1..MaxTyped :
            EditMaxPing("mod", max_ping) =>
                (settings' = settings /\ reply'.out = "no permission")
       /\ \A max_caps \in TypedPercents :
            EditMaxCaps("mod", max_caps) =>
                (settings' = settings /\ reply'.out = "no permission")
       /\ \A content \in Typed :
            EditModLogChannel("mod", content) =>
                (settings' = settings /\ reply'.out = "no permission")]_vars

\* C39 witness: the moderator's press of "Edit mod log channel" was refused
\* after an administrator had set the channel and the warn threshold
C39_Witness ==
    /\ reply = [cmd |-> "edit_mod_log_channel", out |-> "no permission"]
    /\ "mod_log_channel" \in DOMAIN settings /\ settings["mod_log_channel"] = "7"
    /\ "warn_threshold" \in DOMAIN settings /\ settings["warn_threshold"] = 1

====
